---- MODULE Spec2Model ----
(***************************************************************************)
(* ElementCraft: the board reaction engine (gameLogic.checkInteractions,   *)
(* interactions.processChainReaction, checkSpecialCombinations), the       *)
(* interaction lookup, the word scoring functions, the logic-puzzle        *)
(* generators and checkers, and the game store, as state machines.         *)
(*                                                                         *)
(* The specifications share the variables; each drives one part and        *)
(* leaves the others at their initial values:                              *)
(*   SpecLookup  getInteraction / getElementInteraction on catalog pairs   *)
(*   SpecWord    checkWordGuess / checkWordPuzzle on bounded words         *)
(*   SpecReact   checkInteractions / processChainReaction on bounded grids *)
(*   SpecScan    checkSpecialCombinations on bounded grids                 *)
(*   SpecStore   the zustand store: initGame, startGame, selectElement,    *)
(*               placeElement (with checkObjectives), resetGame            *)
(*   SpecPuzzle  generateSudokuSolution, both generateLogicPuzzle, and     *)
(*               createPuzzleFromSolution, step by step                    *)
(*   SpecPuzzleStore  the store's nextLevel, setLogicPuzzle and            *)
(*               checkLogicPuzzleSolution                                  *)
(*   SpecCheck   findPuzzleErrors / checkLogicPuzzle on bounded grids      *)
(*   SpecEffect  applyWaterFlow / applyWaterFlowEffect at a water cell     *)
(*   SpecLevelOne  level 1 played with placeElement and purchaseItem       *)
(*   SpecGame    the store across levels: nextLevel, placeElement,         *)
(*               purchaseItem, setWordPuzzle, checkWordPuzzleSolution      *)
(***************************************************************************)
EXTENDS Integers, Sequences, FiniteSets, TLC

VARIABLES
    \* ---- lookup harness: the two arguments and what each function returned
    element1, element2, lookupPc, gotInteraction, gotInteractionRev,
    gotElementInteraction, gotElementInteractionRev,
    \* ---- word harness: the arguments, the function applied, its return value
    solution, guess, wordPc, wordResult,
    \* ---- reaction harness: the grid handed in, the origin, the outcome
    grid, originRow, originCol, reactPc, reactOut,
    \* ---- the store (src/src/store/gameStore.js:61-90)
    gameState, currentLevel, score, playerEssence, playerLevel, experience,
    board, selectedElement, inventory, unlockedElements, objectives,
    levelsCompleted, currentWordPuzzle, currentLogicPuzzle,
    \* ---- what the last store call returned, and how often it ran the scan
    lastCall, placed,
    \* ---- puzzle generation: the call, where it stands, the solver's grid and
    \* ---- its open loops, the solution and the carved puzzle, the cells
    \* ---- removed so far, whether a failure was reported
    genCall, genPc, sudokuGrid, frames, genSolution, genPuzzle, removed, reported,
    \* ---- grid checks: the function applied, the grid given, what it returned
    checkPc, checkGrid, checkOut

lookupVars == <<element1, element2, lookupPc, gotInteraction, gotInteractionRev,
                gotElementInteraction, gotElementInteractionRev>>
wordVars == <<solution, guess, wordPc, wordResult>>
reactVars == <<grid, originRow, originCol, reactPc, reactOut>>
storeVars == <<gameState, currentLevel, score, playerEssence, playerLevel,
               experience, board, selectedElement, inventory, unlockedElements,
               objectives, levelsCompleted, currentWordPuzzle, currentLogicPuzzle,
               lastCall, placed>>
genVars == <<genCall, genPc, sudokuGrid, frames, genSolution, genPuzzle,
             removed, reported>>
checkVars == <<checkPc, checkGrid, checkOut>>
puzzleVars == <<genVars, checkVars>>
vars == <<lookupVars, wordVars, reactVars, storeVars, puzzleVars>>

(***************************************************************************)
(* The element catalog (constants/elements.js)                             *)
(***************************************************************************)
INITIAL_ELEMENTS == <<"fire", "water", "earth", "air">>

UNLOCKABLE_ELEMENTS ==
    <<"metal", "wood", "crystal", "steam", "cloud", "lava", "sand", "plasma">>

Range(s) == {s[i] : i \in DOMAIN s}

\* The closed catalog of element ids.
Catalog == Range(INITIAL_ELEMENTS) \cup Range(UNLOCKABLE_ELEMENTS)

\* A rule record of the interaction table; special is "" where the source
\* gives none.
Rule(res, pts, tag) == [found |-> TRUE, result |-> res, score |-> pts, special |-> tag]

\* JavaScript's null as the outcome of a lookup.
NoInteraction == [found |-> FALSE, result |-> "", score |-> 0, special |-> ""]

\* The table, keyed by the property names of the object literal.
elementInteractions ==
    ("fire_water" :> Rule("steam", 100, "")) @@
    ("fire_earth" :> Rule("lava", 150, "")) @@
    ("fire_air" :> Rule("plasma", 200, "")) @@
    ("fire_wood" :> Rule("fire", 50, "")) @@
    ("water_air" :> Rule("cloud", 100, "")) @@
    ("water_earth" :> Rule("mud", 75, "")) @@
    ("water_metal" :> Rule("rust", 50, "")) @@
    ("water_wood" :> Rule("wood", 50, "growth")) @@
    ("earth_air" :> Rule("sand", 100, "")) @@
    ("earth_metal" :> Rule("ore", 125, "")) @@
    ("air_metal" :> Rule("oxidation", 75, "")) @@
    ("fire_metal_air" :> Rule("forge", 300, "")) @@
    ("water_earth_wood" :> Rule("forest", 300, ""))

\* The template string `${a}_${b}`.
InteractionKey(a, b) == a \o "_" \o b

\* table[key], with undefined (a missing key) as NoInteraction; every rule
\* object is truthy, so `x || y || null` is the first key that is present.
TableGet(key) ==
    IF key \in DOMAIN elementInteractions THEN elementInteractions[key] ELSE NoInteraction

\* A lookup that forgets the reverse key.
getInteraction_forwardOnly(e1, e2) == TableGet(InteractionKey(e1, e2))

\* interactions.getInteraction
getInteraction(e1, e2) ==
    LET interactionKey == InteractionKey(e1, e2)
        reverseInteractionKey == InteractionKey(e2, e1)
    IN  IF TableGet(interactionKey).found THEN TableGet(interactionKey)
        ELSE IF TableGet(reverseInteractionKey).found THEN TableGet(reverseInteractionKey)
        ELSE NoInteraction

\* gameLogic.getElementInteraction
getElementInteraction(e1, e2) ==
    LET interactionKey == InteractionKey(e1, e2)
        reverseInteractionKey == InteractionKey(e2, e1)
    IN  IF TableGet(interactionKey).found THEN TableGet(interactionKey)
        ELSE IF TableGet(reverseInteractionKey).found THEN TableGet(reverseInteractionKey)
        ELSE NoInteraction

(***************************************************************************)
(* Word scoring (utils/puzzles.js checkWordGuess, gameLogic.checkWordPuzzle)*)
(* A word is a sequence of one-character strings; JavaScript's index i is  *)
(* position i+1 here.                                                      *)
(***************************************************************************)
\* The longest word the harness draws.
MaxWordLen == 3

\* The letters the harness draws: two letters, one of them in both cases.
Alphabet == {"A", "B", "a"}

\* String.prototype.toUpperCase on one character.
UpperChar(ch) == IF ch = "a" THEN "A" ELSE IF ch = "b" THEN "B" ELSE ch

\* str.toUpperCase().split('')
toUpperCase(w) == [i \in 1..Len(w) |-> UpperChar(w[i])]

\* The null written over a used solution character.
UsedChar == ""

\* Array(n).fill(v)
Fill(n, v) == [i \in 1..n |-> v]

\* Array.prototype.indexOf: the first position holding x, 0 for JavaScript's -1.
IndexOf(arr, x) ==
    IF \E i \in 1..Len(arr) : arr[i] = x
    THEN CHOOSE i \in 1..Len(arr) : arr[i] = x /\ \A j \in 1..(i - 1) : arr[j] # x
    ELSE 0

\* The first loop of both functions: equal characters are marked correct and
\* their solution character is spent. st = [result, unused].
RECURSIVE FirstPass(_, _, _, _)
FirstPass(st, solutionChars, guessChars, i) ==
    IF i > Len(guessChars) THEN st
    ELSE IF guessChars[i] = solutionChars[i]
         THEN FirstPass([result |-> [st.result EXCEPT ![i] = "correct"],
                         unused |-> [st.unused EXCEPT ![i] = UsedChar]],
                        solutionChars, guessChars, i + 1)
         ELSE FirstPass(st, solutionChars, guessChars, i + 1)

\* A second loop that spends the guess's own position instead of the
\* position indexOf found.
RECURSIVE SecondPass_spendsOwnIndex(_, _, _)
SecondPass_spendsOwnIndex(st, guessChars, i) ==
    IF i > Len(guessChars) THEN st
    ELSE IF st.result[i] = "correct" THEN SecondPass_spendsOwnIndex(st, guessChars, i + 1)
    ELSE IF IndexOf(st.unused, guessChars[i]) # 0
         THEN SecondPass_spendsOwnIndex(
                  [result |-> [st.result EXCEPT ![i] = "present"],
                   unused |-> [st.unused EXCEPT ![i] = UsedChar]],
                  guessChars, i + 1)
         ELSE SecondPass_spendsOwnIndex(st, guessChars, i + 1)

\* A second loop that never spends the solution character it matched.
RECURSIVE SecondPass_neverSpends(_, _, _)
SecondPass_neverSpends(st, guessChars, i) ==
    IF i > Len(guessChars) THEN st
    ELSE IF st.result[i] = "correct" THEN SecondPass_neverSpends(st, guessChars, i + 1)
    ELSE IF IndexOf(st.unused, guessChars[i]) # 0
         THEN SecondPass_neverSpends(
                  [st EXCEPT !.result = [st.result EXCEPT ![i] = "present"]],
                  guessChars, i + 1)
         ELSE SecondPass_neverSpends(st, guessChars, i + 1)

\* The second loop of both functions: a position not marked correct is
\* present when its character is still unspent in the solution, and spends
\* the first such character.
RECURSIVE SecondPass(_, _, _)
SecondPass(st, guessChars, i) ==
    IF i > Len(guessChars) THEN st
    ELSE IF st.result[i] = "correct" THEN SecondPass(st, guessChars, i + 1)
    ELSE LET solutionIndex == IndexOf(st.unused, guessChars[i])
         IN  IF solutionIndex # 0
             THEN SecondPass([result |-> [st.result EXCEPT ![i] = "present"],
                              unused |-> [st.unused EXCEPT ![solutionIndex] = UsedChar]],
                             guessChars, i + 1)
             ELSE SecondPass(st, guessChars, i + 1)

\* What a scoring call hands back: the array (or null), and its two
\* arguments as they are after the call.
Scored(marks, sol, att) ==
    [isNull |-> FALSE, marks |-> marks, solutionAfter |-> sol, guessAfter |-> att]

ScoredNull(sol, att) ==
    [isNull |-> TRUE, marks |-> <<>>, solutionAfter |-> sol, guessAfter |-> att]

\* A checkWordGuess that compares the characters as typed.
checkWordGuess_caseSensitive(sol, gs) ==
    IF Len(sol) # Len(gs) THEN Scored(Fill(Len(gs), "absent"), sol, gs)
    ELSE LET first == FirstPass([result |-> Fill(Len(sol), "absent"), unused |-> sol],
                                sol, gs, 1)
         IN  Scored(SecondPass(first, gs, 1).result, sol, gs)

\* puzzles.checkWordGuess
checkWordGuess(sol, gs) ==
    IF Len(sol) # Len(gs) THEN Scored(Fill(Len(gs), "absent"), sol, gs)
    ELSE LET solutionChars == toUpperCase(sol)
             guessChars == toUpperCase(gs)
             first == FirstPass([result |-> Fill(Len(sol), "absent"),
                                 unused |-> solutionChars],
                                solutionChars, guessChars, 1)
         IN  Scored(SecondPass(first, guessChars, 1).result, sol, gs)

\* gameLogic.checkWordPuzzle: solutionChars = [...solution] is the copy the
\* loops write to; the arguments are only read.
checkWordPuzzle(sol, attempt) ==
    IF Len(sol) # Len(attempt) THEN ScoredNull(sol, attempt)
    ELSE LET solutionChars == sol
             first == FirstPass([result |-> Fill(Len(sol), "absent"),
                                 unused |-> solutionChars],
                                solutionChars, attempt, 1)
         IN  Scored(SecondPass(first, attempt, 1).result, sol, attempt)

(***************************************************************************)
(* Boards (gameLogic.generateBoard). A board is a function from the row    *)
(* index 0..rows-1 to a function from the column index 0..cols-1 to a      *)
(* cell, so that the source's index arithmetic carries over unchanged.     *)
(***************************************************************************)
\* A cell object {element, ...flags}; power and strength 0 stand for an
\* absent (undefined) property, FALSE for an absent flag.
MakeCell(e) ==
    [element |-> e, flowing |-> FALSE, amplified |-> FALSE, power |-> 0,
     growing |-> FALSE, spreading |-> FALSE, stable |-> FALSE, strength |-> 0,
     conductive |-> FALSE]

\* The null of an empty cell.
EmptyCell == MakeCell("")

IsEmpty(cell) == cell = EmptyCell

\* board.length and board[0].length
NumRows(b) == Cardinality(DOMAIN b)
NumCols(b) == Cardinality(DOMAIN b[0])

\* Array(rows).fill(null).map(() => Array(cols).fill(null))
generateBoard(rows, cols) == [r \in 0..(rows - 1) |-> [c \in 0..(cols - 1) |-> EmptyCell]]

\* The bounds test every neighbour loop of both modules makes.
InBounds(b, r, c) == r >= 0 /\ r < NumRows(b) /\ c >= 0 /\ c < NumCols(b)

SetCell(b, r, c, cell) == [b EXCEPT ![r][c] = cell]

\* newElements.includes(x) || push(x); Set.add(x) for an insertion-ordered Set
AddOnce(seq, x) == IF x \in Range(seq) THEN seq ELSE Append(seq, x)

Max(a, b) == IF a >= b THEN a ELSE b

\* Above, below, left, right, then the four diagonals.
AdjacentOffsets ==
    << <<-1, 0>>, <<1, 0>>, <<0, -1>>, <<0, 1>>,
       <<-1, -1>>, <<-1, 1>>, <<1, -1>>, <<1, 1>> >>

\* The length of the four-neighbour lists.
OrthogonalCount == 4

\* The length of checkInteractions' adjacentCells.
AdjacentCount == 8

(***************************************************************************)
(* Special element effects of gameLogic. rnd[i] is the outcome of the      *)
(* Math.random() < p test made at the i-th neighbour of the list.          *)
(***************************************************************************)
RECURSIVE FireSpreadLoop(_, _, _, _, _)
FireSpreadLoop(b, row, col, rnd, i) ==
    IF i > OrthogonalCount THEN b
    ELSE LET adjRow == row + AdjacentOffsets[i][1]
             adjCol == col + AdjacentOffsets[i][2]
         IN  IF InBounds(b, adjRow, adjCol) /\ b[adjRow][adjCol].element = "wood" /\ rnd[i]
             THEN FireSpreadLoop(SetCell(b, adjRow, adjCol, MakeCell("fire")),
                                 row, col, rnd, i + 1)
             ELSE FireSpreadLoop(b, row, col, rnd, i + 1)

applyFireSpread(b, row, col, rnd) == FireSpreadLoop(b, row, col, rnd, 1)

\* Left, then right: the horizontalCells of applyWaterFlow.
HorizontalOffsets == << <<0, -1>>, <<0, 1>> >>

RECURSIVE WaterSpreadLoop(_, _, _, _, _)
WaterSpreadLoop(b, row, col, rnd, i) ==
    IF i > Len(HorizontalOffsets) THEN b
    ELSE LET adjRow == row + HorizontalOffsets[i][1]
             adjCol == col + HorizontalOffsets[i][2]
         IN  IF InBounds(b, adjRow, adjCol) /\ IsEmpty(b[adjRow][adjCol]) /\ rnd[i]
             THEN WaterSpreadLoop(
                      SetCell(b, adjRow, adjCol, [MakeCell("water") EXCEPT !.flowing = TRUE]),
                      row, col, rnd, i + 1)
             ELSE WaterSpreadLoop(b, row, col, rnd, i + 1)

\* A flow that fills the cell below and leaves the source where it is.
applyWaterFlow_keepsSource(b, row, col, rnd) ==
    LET moved == IF row + 1 < NumRows(b) /\ IsEmpty(b[row + 1][col])
                 THEN SetCell(b, row + 1, col, MakeCell("water"))
                 ELSE b
    IN  WaterSpreadLoop(moved, row, col, rnd, 1)

applyWaterFlow(b, row, col, rnd) ==
    LET moved == IF row + 1 < NumRows(b) /\ IsEmpty(b[row + 1][col])
                 THEN SetCell(SetCell(b, row + 1, col, MakeCell("water")), row, col, EmptyCell)
                 ELSE b
    IN  WaterSpreadLoop(moved, row, col, rnd, 1)

\* interactions.applyWaterFlowEffect works on the board and the results
\* object: st is [board, modified, effects]. An effect is <<type, from, to>>.
RECURSIVE WaterEffectLoop(_, _, _, _, _)
WaterEffectLoop(st, row, col, rnd, i) ==
    IF i > Len(HorizontalOffsets) THEN st
    ELSE LET adjRow == row + HorizontalOffsets[i][1]
             adjCol == col + HorizontalOffsets[i][2]
         IN  IF InBounds(st.board, adjRow, adjCol) /\ IsEmpty(st.board[adjRow][adjCol]) /\ rnd[i]
             THEN WaterEffectLoop(
                      [board |-> SetCell(st.board, adjRow, adjCol,
                                         [MakeCell("water") EXCEPT !.flowing = TRUE]),
                       modified |-> TRUE,
                       effects |-> Append(st.effects, <<"spread", <<row, col>>, <<adjRow, adjCol>> >>)],
                      row, col, rnd, i + 1)
             ELSE WaterEffectLoop(st, row, col, rnd, i + 1)

applyWaterFlowEffect(b, row, col, rnd) ==
    LET start == [board |-> b, modified |-> FALSE, effects |-> <<>>]
        moved == IF row + 1 < NumRows(b) /\ IsEmpty(b[row + 1][col])
                 THEN [board |-> SetCell(SetCell(b, row + 1, col,
                                                 [MakeCell("water") EXCEPT !.flowing = TRUE]),
                                         row, col, EmptyCell),
                       modified |-> TRUE,
                       effects |-> << <<"flow", <<row, col>>, <<row + 1, col>> >> >>]
                 ELSE start
    IN  WaterEffectLoop(moved, row, col, rnd, 1)

applyAirDisplacement(b, row, col) ==
    IF row - 1 >= 0
       /\ b[row - 1][col].element \in {"fire", "steam"}
       /\ row - 2 >= 0
       /\ IsEmpty(b[row - 2][col])
    THEN SetCell(SetCell(b, row - 2, col, b[row - 1][col]), row - 1, col, EmptyCell)
    ELSE b

RECURSIVE CrystalLoop(_, _, _, _)
CrystalLoop(b, row, col, i) ==
    IF i > OrthogonalCount THEN b
    ELSE LET adjRow == row + AdjacentOffsets[i][1]
             adjCol == col + AdjacentOffsets[i][2]
         IN  IF InBounds(b, adjRow, adjCol) /\ ~IsEmpty(b[adjRow][adjCol])
             THEN LET adjCell == b[adjRow][adjCol]
                      amplifiedCell ==
                          [adjCell EXCEPT !.amplified = TRUE,
                                          !.power = (IF adjCell.power = 0 THEN 1
                                                     ELSE adjCell.power) * 2]
                  IN  CrystalLoop(SetCell(b, adjRow, adjCol, amplifiedCell), row, col, i + 1)
             ELSE CrystalLoop(b, row, col, i + 1)

applyCrystalAmplification(b, row, col) == CrystalLoop(b, row, col, 1)

applySpecialElementEffects(b, row, col, elementType, rnd) ==
    CASE elementType = "fire" -> applyFireSpread(b, row, col, rnd)
      [] elementType = "water" -> applyWaterFlow(b, row, col, rnd)
      [] elementType = "air" -> applyAirDisplacement(b, row, col)
      [] elementType = "crystal" -> applyCrystalAmplification(b, row, col)
      [] OTHER -> b

(***************************************************************************)
(* gameLogic.checkInteractions: one pass over the eight neighbours of the  *)
(* placed cell on a deep copy of the board, then the special effects.      *)
(***************************************************************************)
\* One entry of an interactions / reactions list.
Reaction(e1, e2, res, r, c) ==
    [element1 |-> e1, element2 |-> e2, result |-> res, position |-> <<r, c>>]

\* An interaction whose result is written over the placed cell instead of
\* over the neighbour.
ApplyInteraction_overwritesPlaced(st, row, col, placedElement, adjRow, adjCol, interaction) ==
    [newBoard |-> SetCell(st.newBoard, row, col, MakeCell(interaction.result)),
     score |-> st.score + interaction.score,
     newElements |-> AddOnce(st.newElements, interaction.result),
     interactions |-> Append(st.interactions,
         Reaction(placedElement, st.newBoard[adjRow][adjCol].element,
                  interaction.result, adjRow, adjCol))]

\* The body of `if (interaction)`: the entry is logged, the result element
\* is noted once, the neighbour becomes {element: result}, the score grows.
ApplyInteraction(st, row, col, placedElement, adjRow, adjCol, interaction) ==
    [newBoard |-> SetCell(st.newBoard, adjRow, adjCol, MakeCell(interaction.result)),
     score |-> st.score + interaction.score,
     newElements |-> AddOnce(st.newElements, interaction.result),
     interactions |-> Append(st.interactions,
         Reaction(placedElement, st.newBoard[adjRow][adjCol].element,
                  interaction.result, adjRow, adjCol))]

\* st = [newBoard, score, newElements, interactions]
RECURSIVE InteractionLoop(_, _, _, _, _)
InteractionLoop(st, row, col, placedElement, i) ==
    IF i > AdjacentCount THEN st
    ELSE LET adjRow == row + AdjacentOffsets[i][1]
             adjCol == col + AdjacentOffsets[i][2]
         IN  IF InBounds(st.newBoard, adjRow, adjCol)
                /\ ~IsEmpty(st.newBoard[adjRow][adjCol])
                /\ getElementInteraction(placedElement,
                                         st.newBoard[adjRow][adjCol].element).found
             THEN InteractionLoop(
                      ApplyInteraction(st, row, col, placedElement, adjRow, adjCol,
                          getElementInteraction(placedElement,
                                                st.newBoard[adjRow][adjCol].element)),
                      row, col, placedElement, i + 1)
             ELSE InteractionLoop(st, row, col, placedElement, i + 1)

checkInteractions(b, row, col, rnd) ==
    IF IsEmpty(b[row][col])
    THEN [newBoard |-> b, score |-> 0, newElements |-> <<>>, interactions |-> <<>>]
    ELSE LET placedElement == b[row][col].element
             looped == InteractionLoop(
                           [newBoard |-> b, score |-> 0, newElements |-> <<>>,
                            interactions |-> <<>>],
                           row, col, placedElement, 1)
         IN  [looped EXCEPT !.newBoard =
                  applySpecialElementEffects(looped.newBoard, row, col, placedElement, rnd)]

(***************************************************************************)
(* interactions.processChainReaction: the recursive four-neighbour chain,  *)
(* which mutates the board it is given. The traversal state st carries the *)
(* board, the visited set, the reaction log, the score and the discovered  *)
(* elements, and beside them what the run did: the cells in the order they *)
(* passed the visited check, the number of processReactions calls, the     *)
(* deepest nesting of calls and of calls that passed the check, and the    *)
(* cells that were in the visited set when a reaction was applied to them. *)
(***************************************************************************)
\* No run makes more calls than this: the first, and four per cell expanded.
\* A run that would make more is cut off and flagged exhausted.
CallBudget(b) == 1 + OrthogonalCount * NumRows(b) * NumCols(b)

\* The body of `if (interaction)` in processReactions, up to the recursive
\* call.
ApplyReaction(st, currentElement, adjRow, adjCol, interaction) ==
    [st EXCEPT
        !.reactions = Append(@, Reaction(currentElement,
                                         st.board[adjRow][adjCol].element,
                                         interaction.result, adjRow, adjCol)),
        !.score = @ + interaction.score,
        !.newElements = AddOnce(@, interaction.result),
        !.onVisited = IF <<adjRow, adjCol>> \in st.visited
                      THEN Append(@, <<adjRow, adjCol>>) ELSE @,
        !.board = SetCell(@, adjRow, adjCol, MakeCell(interaction.result))]

RECURSIVE processReactions(_, _, _, _)
RECURSIVE ReactionLoop(_, _, _, _, _, _)

\* The for loop over the four neighbours of (r, c); currentElement was read
\* once, before the loop.
ReactionLoop(st, r, c, currentElement, i, depth) ==
    IF i > OrthogonalCount \/ st.exhausted THEN st
    ELSE LET adjRow == r + AdjacentOffsets[i][1]
             adjCol == c + AdjacentOffsets[i][2]
         IN  IF InBounds(st.board, adjRow, adjCol)
                /\ ~IsEmpty(st.board[adjRow][adjCol])
                /\ getInteraction(currentElement, st.board[adjRow][adjCol].element).found
             THEN ReactionLoop(
                      processReactions(
                          ApplyReaction(st, currentElement, adjRow, adjCol,
                              getInteraction(currentElement,
                                             st.board[adjRow][adjCol].element)),
                          adjRow, adjCol, depth + 1),
                      r, c, currentElement, i + 1, depth)
             ELSE ReactionLoop(st, r, c, currentElement, i + 1, depth)

\* A processReactions that tests the visited set and never adds to it.
processReactions_neverMarks(st, r, c, depth) ==
    LET entered == [st EXCEPT !.calls = @ + 1, !.maxDepth = Max(@, depth)]
    IN  IF entered.calls > CallBudget(st.board) THEN [entered EXCEPT !.exhausted = TRUE]
        ELSE IF <<r, c>> \in entered.visited THEN entered
        ELSE LET passed == [entered EXCEPT !.expanded = Append(@, <<r, c>>),
                                           !.maxExpandDepth = Max(@, depth)]
             IN  IF IsEmpty(passed.board[r][c]) THEN passed
                 ELSE ReactionLoop(passed, r, c, passed.board[r][c].element, 1, depth)

processReactions(st, r, c, depth) ==
    LET entered == [st EXCEPT !.calls = @ + 1, !.maxDepth = Max(@, depth)]
    IN  IF entered.calls > CallBudget(st.board) THEN [entered EXCEPT !.exhausted = TRUE]
        ELSE IF <<r, c>> \in entered.visited THEN entered
        ELSE LET passed == [entered EXCEPT !.visited = @ \cup {<<r, c>>},
                                           !.expanded = Append(@, <<r, c>>),
                                           !.maxExpandDepth = Max(@, depth)]
             IN  IF IsEmpty(passed.board[r][c]) THEN passed
                 ELSE ReactionLoop(passed, r, c, passed.board[r][c].element, 1, depth)

\* The record the call returns ({reactions, score, newElements, length}),
\* with the board as the call left it and the run's measurements.
processChainReaction(b, row, col) ==
    processReactions(
        [board |-> b, visited |-> {}, reactions |-> <<>>, score |-> 0,
         newElements |-> <<>>, expanded |-> <<>>, calls |-> 0, maxDepth |-> 0,
         maxExpandDepth |-> 0, exhausted |-> FALSE, onVisited |-> <<>>],
        row, col, 1)

(***************************************************************************)
(* The store (store/gameStore.js). The operators below take and return the *)
(* store's state as one record S; an action copies S into the variables.   *)
(***************************************************************************)
\* GAME_STATES
INTRO == "intro"
PLAYING == "playing"
LEVEL_COMPLETE == "level_complete"
GAME_OVER == "game_over"

\* currentWordPuzzle: null, or the puzzle setWordPuzzle was given; word is
\* the sequence of its characters.
NoWordPuzzle == [active |-> FALSE, word |-> <<>>]

WordPuzzleState(word) == [active |-> TRUE, word |-> word]

\* currentLogicPuzzle: null, or the puzzle state setLogicPuzzle was given.
NoPuzzle ==
    [active |-> FALSE, size |-> 0, puzzle |-> <<>>, solution |-> <<>>,
     validElements |-> <<>>]

PuzzleState(size, puzzle, sol, validElements) ==
    [active |-> TRUE, size |-> size, puzzle |-> puzzle, solution |-> sol,
     validElements |-> validElements]

\* selectedElement: null
NoSelection == ""

\* Every property name an inventory object can get: the catalog, and the
\* results of the interaction table that are not in the catalog.
ElementNames == Catalog \cup {elementInteractions[k].result : k \in DOMAIN elementInteractions}

\* INITIAL_ELEMENTS.reduce(...): 5 of each basic element; a missing property
\* reads as 0 (the code tests !inventory[x] and writes 0 before adding).
StartCount == 5

InitialInventory ==
    [e \in ElementNames |-> IF e \in Range(INITIAL_ELEMENTS) THEN StartCount ELSE 0]

\* levelRequirements[level], the grid size of it.
levelRequirements ==
    (1 :> [rows |-> 6, cols |-> 6]) @@ (2 :> [rows |-> 6, cols |-> 8]) @@
    (3 :> [rows |-> 8, cols |-> 8]) @@ (4 :> [rows |-> 8, cols |-> 10]) @@
    (5 :> [rows |-> 10, cols |-> 10]) @@ (6 :> [rows |-> 10, cols |-> 10]) @@
    (7 :> [rows |-> 10, cols |-> 10]) @@ (8 :> [rows |-> 12, cols |-> 12]) @@
    (9 :> [rows |-> 12, cols |-> 12]) @@ (10 :> [rows |-> 14, cols |-> 14])

\* The fallback of initGame: levelRequirements[currentLevel] || {rows: 8, cols: 8}
DefaultRequirements == [rows |-> 8, cols |-> 8]

\* An objective with every type-specific parameter present; "" and 0 and <<>>
\* stand for a parameter the source's object does not have.
Objective(id, type, element, count, pattern, combination, points) ==
    [id |-> id, type |-> type, element |-> element, count |-> count,
     pattern |-> pattern, combination |-> combination, puzzleType |-> "",
     points |-> points, completed |-> FALSE]

\* A solve_puzzle objective.
PuzzleObjective(id, puzzleType, points) ==
    [Objective(id, "solve_puzzle", "", 0, "", <<>>, points) EXCEPT !.puzzleType = puzzleType]

levelObjectives ==
    (1 :> << Objective("create_steam", "create_element", "steam", 0, "", <<>>, 100),
             Objective("place_all_elements", "place_elements", "", 0, "", <<>>, 50) >>) @@
    (2 :> << Objective("create_structure", "build_structure", "", 0, "earth_square", <<>>, 100),
             Objective("place_metal", "place_element", "metal", 3, "", <<>>, 75),
             Objective("create_lava", "create_element", "lava", 0, "", <<>>, 150) >>) @@
    (3 :> << Objective("grow_wood", "create_combination", "", 0, "", << <<"wood", 5>> >>, 150),
             Objective("metal_conductor", "create_pattern", "", 0, "metal_fire_path", <<>>, 200) >>) @@
    (4 :> << Objective("create_cloud", "create_element", "cloud", 0, "", <<>>, 150),
             Objective("create_sand", "create_element", "sand", 0, "", <<>>, 150),
             Objective("element_trio", "create_combination", "", 0, "",
                       << <<"fire", 3>>, <<"water", 3>>, <<"air", 3>> >>, 200) >>) @@
    (5 :> << Objective("create_crystal", "create_element", "crystal", 0, "", <<>>, 250),
             Objective("amplify_elements", "special_action", "", 3, "", <<>>, 200),
             Objective("elemental_balance", "create_combination", "", 0, "",
                       << <<"fire", 2>>, <<"water", 2>>, <<"earth", 2>>,
                          <<"air", 2>>, <<"metal", 2>>, <<"wood", 2>> >>, 300) >>) @@
    (6 :> << PuzzleObjective("word_puzzle", "word", 300),
             Objective("create_plasma", "create_element", "plasma", 0, "", <<>>, 250) >>) @@
    (7 :> << PuzzleObjective("logic_puzzle", "logic", 350),
             Objective("flowing_system", "create_pattern", "", 0, "water_flow_circuit", <<>>, 300) >>) @@
    (8 :> << Objective("multi_reaction", "special_action", "", 5, "", <<>>, 400),
             Objective("elemental_tower", "build_structure", "", 0, "vertical_stack", <<>>, 350) >>) @@
    (9 :> << Objective("mega_structure", "build_structure", "", 0, "complex_building", <<>>, 450),
             Objective("element_mastery", "create_combination", "", 0, "",
                       << <<"fire", 3>>, <<"water", 3>>, <<"earth", 3>>, <<"air", 3>>,
                          <<"metal", 3>>, <<"wood", 3>>, <<"crystal", 1>>, <<"steam", 1>>,
                          <<"cloud", 1>>, <<"lava", 1>>, <<"sand", 1>> >>, 500) >>) @@
    (10 :> << PuzzleObjective("final_word_puzzle", "word", 300),
              PuzzleObjective("final_logic_puzzle", "logic", 400),
              Objective("element_harmony", "special_action", "", 0, "", <<>>, 1000) >>)

levelRewards ==
    (1 :> [elements |-> <<"metal">>, points |-> 200]) @@
    (2 :> [elements |-> <<"wood">>, points |-> 400]) @@
    (3 :> [elements |-> <<"lava", "sand">>, points |-> 600]) @@
    (4 :> [elements |-> <<"cloud">>, points |-> 800]) @@
    (5 :> [elements |-> <<"crystal">>, points |-> 1000]) @@
    (6 :> [elements |-> <<"plasma">>, points |-> 1200]) @@
    (7 :> [elements |-> <<>>, points |-> 1500]) @@
    (8 :> [elements |-> <<>>, points |-> 2000]) @@
    (9 :> [elements |-> <<>>, points |-> 2500]) @@
    (10 :> [elements |-> <<>>, points |-> 5000])

\* The state after construction.
InitialStore ==
    [gameState |-> INTRO, currentLevel |-> 1, score |-> 0, playerEssence |-> 0,
     playerLevel |-> 1, experience |-> 0, board |-> <<>>,
     selectedElement |-> NoSelection, inventory |-> InitialInventory,
     unlockedElements |-> INITIAL_ELEMENTS, objectives |-> <<>>,
     levelsCompleted |-> <<>>, currentWordPuzzle |-> NoWordPuzzle,
     currentLogicPuzzle |-> NoPuzzle]

initGame(S) ==
    LET req == IF S.currentLevel \in DOMAIN levelRequirements
               THEN levelRequirements[S.currentLevel] ELSE DefaultRequirements
        objs == IF S.currentLevel \in DOMAIN levelObjectives
                THEN levelObjectives[S.currentLevel] ELSE <<>>
    IN  [S EXCEPT !.board = generateBoard(req.rows, req.cols),
                  !.objectives = [i \in DOMAIN objs |-> [objs[i] EXCEPT !.completed = FALSE]],
                  !.gameState = INTRO,
                  !.selectedElement = NoSelection]

startGame(S) == [S EXCEPT !.gameState = PLAYING]

selectElement(S, element) == [S EXCEPT !.selectedElement = element]

resetGame(S) == initGame(InitialStore)

\* The experience one player level costs, per level.
ExpPerLevel == 1000

\* The essence a level-up pays, per level.
LevelUpBonus == 100

\* An addExperience that levels up and keeps all the experience.
addExperience_keepsAll(S, amount) ==
    LET newExperience == S.experience + amount
        expForNextLevel == S.playerLevel * ExpPerLevel
    IN  IF newExperience >= expForNextLevel
        THEN [S EXCEPT !.playerLevel = @ + 1,
                       !.experience = newExperience,
                       !.playerEssence = @ + S.playerLevel * LevelUpBonus]
        ELSE [S EXCEPT !.experience = newExperience]

addExperience(S, amount) ==
    LET newExperience == S.experience + amount
        expForNextLevel == S.playerLevel * ExpPerLevel
    IN  IF newExperience >= expForNextLevel
        THEN [S EXCEPT !.playerLevel = @ + 1,
                       !.experience = newExperience - expForNextLevel,
                       !.playerEssence = @ + S.playerLevel * LevelUpBonus]
        ELSE [S EXCEPT !.experience = newExperience]

\* rewards.elements.forEach: three of each reward element, unlocked if new.
RECURSIVE RewardElements(_, _, _)
RewardElements(acc, elements, i) ==
    IF i > Len(elements) THEN acc
    ELSE RewardElements(
             [inventory |-> [acc.inventory EXCEPT ![elements[i]] = @ + 3],
              unlockedElements |-> AddOnce(acc.unlockedElements, elements[i])],
             elements, i + 1)

awardLevelCompletion(S, level) ==
    LET newLevelsCompleted == Append(S.levelsCompleted, level)
    IN  IF level \in DOMAIN levelRewards
        THEN LET rewards == levelRewards[level]
                 given == RewardElements([inventory |-> S.inventory,
                                          unlockedElements |-> S.unlockedElements],
                                         rewards.elements, 1)
             IN  addExperience(
                     [S EXCEPT !.levelsCompleted = newLevelsCompleted,
                               !.inventory = given.inventory,
                               !.unlockedElements = given.unlockedElements,
                               !.score = @ + rewards.points,
                               !.playerEssence = @ + (rewards.points \div 4)],
                     rewards.points)
        ELSE [S EXCEPT !.levelsCompleted = newLevelsCompleted]

\* board.flat().filter(cell => cell && cell.element === element).length
CountElement(b, element) ==
    Cardinality({rc \in (DOMAIN b) \X (DOMAIN b[0]) : b[rc[1]][rc[2]].element = element})

\* The switch of checkObjectives: whether the board satisfies the objective.
ObjectiveMet(b, objective) ==
    CASE objective.type = "create_element" -> CountElement(b, objective.element) > 0
      [] objective.type = "create_combination" ->
            /\ objective.combination # <<>>
            /\ \A i \in DOMAIN objective.combination :
                   CountElement(b, objective.combination[i][1]) >= objective.combination[i][2]
      [] objective.type = "place_element" ->
            /\ objective.element # ""
            /\ objective.count # 0
            /\ CountElement(b, objective.element) >= objective.count
      [] objective.type = "build_structure" ->
            /\ objective.pattern = "earth_square"
            /\ \E r \in 0..(NumRows(b) - 2), c \in 0..(NumCols(b) - 2) :
                   /\ b[r][c].element = "earth"
                   /\ b[r][c + 1].element = "earth"
                   /\ b[r + 1][c].element = "earth"
                   /\ b[r + 1][c + 1].element = "earth"
      [] OTHER -> FALSE

\* objective.points || 100
PointsOf(objective) == IF objective.points = 0 THEN 100 ELSE objective.points

\* objectives.map(...): the awards are set as each objective is visited, the
\* updated list is set after the loop.
RECURSIVE ObjectivesLoop(_, _, _, _)
ObjectivesLoop(S, b, updated, i) ==
    IF i > Len(S.objectives) THEN [state |-> S, updatedObjectives |-> updated]
    ELSE LET objective == S.objectives[i]
         IN  IF objective.completed
             THEN ObjectivesLoop(S, b, Append(updated, objective), i + 1)
             ELSE IF ObjectiveMet(b, objective)
             THEN ObjectivesLoop(
                      addExperience(
                          [S EXCEPT !.score = @ + PointsOf(objective),
                                    !.playerEssence = @ + (PointsOf(objective) \div 5)],
                          PointsOf(objective)),
                      b, Append(updated, [objective EXCEPT !.completed = TRUE]), i + 1)
             ELSE ObjectivesLoop(S, b, Append(updated, objective), i + 1)

checkObjectives(S) ==
    LET looped == ObjectivesLoop(S, S.board, <<>>, 1)
        after == [looped.state EXCEPT !.objectives = looped.updatedObjectives]
        allComplete == \A i \in DOMAIN after.objectives : after.objectives[i].completed
    IN  IF allComplete
        THEN LET done == [after EXCEPT !.gameState = LEVEL_COMPLETE]
             IN  IF S.currentLevel \in Range(done.levelsCompleted) THEN done
                 ELSE awardLevelCompletion(done, S.currentLevel)
        ELSE after

\* What a store call handed back. threw: the call ended in a TypeError
\* instead of returning. scans: how many times the call ran
\* checkSpecialCombinations. isCorrect and grid: the verdict of a puzzle
\* check and the grid it was given; attempt and result: the word a word
\* check was given and the marks it returns.
Returned(op, row, col, elementType, success, message, newElements) ==
    [op |-> op, row |-> row, col |-> col, elementType |-> elementType,
     threw |-> FALSE, success |-> success, message |-> message,
     newElements |-> newElements, scans |-> 0, isCorrect |-> FALSE, grid |-> <<>>,
     attempt |-> <<>>, result |-> <<>>]

Threw(op, row, col, elementType) ==
    [op |-> op, row |-> row, col |-> col, elementType |-> elementType,
     threw |-> TRUE, success |-> FALSE, message |-> "TypeError",
     newElements |-> <<>>, scans |-> 0, isCorrect |-> FALSE, grid |-> <<>>,
     attempt |-> <<>>, result |-> <<>>]

NoCall == Returned("none", 0, 0, "", FALSE, "", <<>>)

\* An occupancy test that takes every in-range cell for free.
CellNotNull_onlyUndefined(b, row, col) == col \notin DOMAIN b[row]

\* board[row][col] !== null, for a row the board has: a column outside the
\* row reads undefined, which is not null.
CellNotNull(b, row, col) ==
    IF col \in DOMAIN b[row] THEN ~IsEmpty(b[row][col]) ELSE TRUE

\* interactions.newElements.forEach: one more of each in the inventory, and
\* a first discovery unlocks the element and pays 50 essence.
RECURSIVE NewElementsLoop(_, _, _)
NewElementsLoop(acc, newElements, i) ==
    IF i > Len(newElements) THEN acc
    ELSE LET element == newElements[i]
             counted == [acc EXCEPT !.inventory[element] = @ + 1]
         IN  NewElementsLoop(
                 IF element \in Range(acc.unlockedElements) THEN counted
                 ELSE [counted EXCEPT !.unlockedElements = Append(@, element),
                                      !.playerEssence = @ + 50],
                 newElements, i + 1)

\* interactions.score || 10
ScoreOrTen(n) == IF n = 0 THEN 10 ELSE n

\* placeElement(row, col, elementType): [state, ret]
placeElement(S, row, col, elementType, rnd) ==
    IF S.inventory[elementType] <= 0
    THEN [state |-> S,
          ret |-> Returned("placeElement", row, col, elementType, FALSE,
                           "Not enough elements in inventory", <<>>)]
    ELSE IF row \notin DOMAIN S.board
    THEN [state |-> S, ret |-> Threw("placeElement", row, col, elementType)]
    ELSE IF CellNotNull(S.board, row, col)
    THEN [state |-> S,
          ret |-> Returned("placeElement", row, col, elementType, FALSE,
                           "Cell already occupied", <<>>)]
    ELSE LET newBoard == SetCell(S.board, row, col, MakeCell(elementType))
             interactions == checkInteractions(newBoard, row, col, rnd)
             found == NewElementsLoop(
                          [inventory |-> [S.inventory EXCEPT ![elementType] = @ - 1],
                           unlockedElements |-> S.unlockedElements,
                           playerEssence |-> S.playerEssence],
                          interactions.newElements, 1)
             updated ==
                 [S EXCEPT
                     !.board = interactions.newBoard,
                     !.inventory = found.inventory,
                     !.unlockedElements = found.unlockedElements,
                     !.selectedElement = IF S.inventory[elementType] <= 1
                                         THEN NoSelection ELSE @,
                     !.score = @ + ScoreOrTen(interactions.score),
                     !.playerEssence = found.playerEssence
                                       + (ScoreOrTen(interactions.score) \div 10)]
         IN  [state |-> checkObjectives(updated),
              ret |-> Returned("placeElement", row, col, elementType, TRUE, "",
                               interactions.newElements)]

(***************************************************************************)
(* Logic puzzles: the backtracking generator of utils/puzzles.js and the   *)
(* cyclic generator of utils/gameLogic. A solver grid holds element ids,   *)
(* "" for null; a solution or puzzle grid holds cells, EmptyCell for null. *)
(***************************************************************************)
\* Array(size).fill().map(() => Array(size).fill(null))
EmptySudokuGrid(size) == [r \in 0..(size - 1) |-> [c \in 0..(size - 1) |-> ""]]

\* The nested loops over one box: whether some cell of it holds element.
BoxHolds(g, boxRow, boxCol, boxHeight, boxWidth, element) ==
    \E r \in boxRow..(boxRow + boxHeight - 1), c \in boxCol..(boxCol + boxWidth - 1) :
        g[r][c] = element

isValidPlacement_rowsAndColumnsOnly(g, row, col, element, size) ==
    /\ \A c \in 0..(size - 1) : g[row][c] # element
    /\ \A r \in 0..(size - 1) : g[r][col] # element

isValidPlacement(g, row, col, element, size) ==
    /\ \A c \in 0..(size - 1) : g[row][c] # element
    /\ \A r \in 0..(size - 1) : g[r][col] # element
    /\ size = 9 => ~BoxHolds(g, (row \div 3) * 3, (col \div 3) * 3, 3, 3, element)
    /\ size = 4 => ~BoxHolds(g, (row \div 2) * 2, (col \div 2) * 2, 2, 2, element)
    /\ size = 6 => ~BoxHolds(g, (row \div 2) * 2, (col \div 3) * 3, 2, 3, element)

\* The entries of elements that the loop of solveSudoku at cell k has not yet
\* taken and that pass isValidPlacement: the loop body does nothing for the
\* others.
OpenCandidates(g, k, size, elements, tried) ==
    {i \in DOMAIN elements \ tried :
        isValidPlacement(g, k \div size, k % size, elements[i], size)}

\* [...elements].sort(() => Math.random() - 0.5): the entry the loop takes
\* next. "any" is every permutation; "ascending" and "descending" are the
\* two permutations a constant comparator gives.
NextCandidates(shuffle, open) ==
    IF open = {} THEN {}
    ELSE IF shuffle = "ascending" THEN {CHOOSE i \in open : \A j \in open : i <= j}
    ELSE IF shuffle = "descending" THEN {CHOOSE i \in open : \A j \in open : i >= j}
    ELSE open

\* grid.map(row => row.map(element => ({ element }))); a null stays null when
\* the grid is returned as it is.
AsCells(g) == [r \in DOMAIN g |-> [c \in DOMAIN g[r] |-> MakeCell(g[r][c])]]

\* elements.slice(0, size)
Slice(seq, n) == SubSeq(seq, 1, IF n <= Len(seq) THEN n ELSE Len(seq))

\* puzzles.generateLogicPuzzle: the size and the difficulty (in hundredths)
\* of a level.
SudokuSizeOf(level) == IF level <= 3 THEN 4 ELSE IF level <= 7 THEN 6 ELSE 9

SudokuDifficultyOf(level) == IF 40 + level * 3 <= 70 THEN 40 + level * 3 ELSE 70

\* gameLogic.generateLogicPuzzle: the size and the element list of a level.
LogicSizeOf(level) == IF level <= 2 THEN 4 ELSE IF level <= 4 THEN 6 ELSE 9

LogicElementsOf(level) ==
    INITIAL_ELEMENTS \o (IF level >= 3 THEN <<"metal">> ELSE <<>>)
                     \o (IF level >= 4 THEN <<"wood">> ELSE <<>>)

\* gameLogic.difficulty, in hundredths.
difficulty(level) == IF 30 + level * 10 <= 70 THEN 30 + level * 10 ELSE 70

\* gameLogic.generateSolution
generateSolution(size, elements) ==
    [row \in 0..(size - 1) |->
        [col \in 0..(size - 1) |-> MakeCell(elements[((row + col) % Len(elements)) + 1])]]

\* JSON.parse(JSON.stringify(solution)): a grid of { element } cells and
\* nulls comes back cell for cell.
JsonCopy(g) == [r \in DOMAIN g |-> [c \in DOMAIN g[r] |-> g[r][c]]]

CarveCell_countsEveryDraw(p, n, row, col) ==
    [puzzle |-> SetCell(p, row, col, EmptyCell), removed |-> n + 1]

\* The body of the carving loop for one drawn cell: the puzzle and the count
\* of removed cells after it.
CarveCell(p, n, row, col) ==
    IF ~IsEmpty(p[row][col])
    THEN [puzzle |-> SetCell(p, row, col, EmptyCell), removed |-> n + 1]
    ELSE [puzzle |-> p, removed |-> n]

\* Math.floor(totalCells * difficulty)
CellsToRemove(size, hundredths) == (size * size * hundredths) \div 100

(***************************************************************************)
(* gameLogic.checkLogicPuzzle and the store's puzzle operations            *)
(***************************************************************************)
\* A JavaScript array handed over as validElements: a list of element ids,
\* or a grid, whose entries are rows.
StringArray(seq) == [kind |-> "strings", items |-> seq]

RowArray(g) == [kind |-> "rows", items |-> g]

\* validElements.includes(x) for a string x: no row is === a string.
ArrayIncludes(arr, x) == arr.kind = "strings" /\ x \in Range(arr.items)

\* The cells at the given positions hold no element twice (the Set of one
\* row, column or box).
NoRepeat(b, positions) ==
    \A p, q \in positions : b[p[1]][p[2]].element = b[q[1]][q[2]].element => p = q

\* gameLogic.checkLogicPuzzle(board, validElements)
checkLogicPuzzle(b, validElements) ==
    LET size == NumRows(b)
        idx == 0..(size - 1)
    IN  /\ \A row, col \in idx :
              /\ ~IsEmpty(b[row][col])
              /\ ArrayIncludes(validElements, b[row][col].element)
        /\ \A row \in idx : NoRepeat(b, {row} \X idx)
        /\ \A col \in idx : NoRepeat(b, idx \X {col})
        /\ size = 9 =>
              \A boxRow, boxCol \in 0..2 :
                  NoRepeat(b, ((boxRow * 3)..(boxRow * 3 + 2)) \X ((boxCol * 3)..(boxCol * 3 + 2)))

nextLevel(S) ==
    IF S.currentLevel + 1 \notin DOMAIN levelRequirements
    THEN [S EXCEPT !.gameState = GAME_OVER]
    ELSE [initGame([S EXCEPT !.currentLevel = @ + 1]) EXCEPT !.gameState = PLAYING]

setLogicPuzzle(S, puzzle) == [S EXCEPT !.currentLogicPuzzle = puzzle]

\* objectives.map(...) of a puzzle check: every solve_puzzle objective of the
\* puzzle type is paid and marked, completed before or not.
RECURSIVE PuzzleObjectivesLoop(_, _, _, _)
PuzzleObjectivesLoop(S, puzzleType, updated, i) ==
    IF i > Len(S.objectives) THEN [state |-> S, updatedObjectives |-> updated]
    ELSE LET obj == S.objectives[i]
         IN  IF obj.type = "solve_puzzle" /\ obj.puzzleType = puzzleType
             THEN PuzzleObjectivesLoop(
                      addExperience(
                          [S EXCEPT !.score = @ + PointsOf(obj),
                                    !.playerEssence = @ + (PointsOf(obj) \div 5)],
                          PointsOf(obj)),
                      puzzleType, Append(updated, [obj EXCEPT !.completed = TRUE]), i + 1)
             ELSE PuzzleObjectivesLoop(S, puzzleType, Append(updated, obj), i + 1)

\* The isCorrect branch of both puzzle checks.
MarkPuzzleSolved(S, puzzleType) ==
    LET looped == PuzzleObjectivesLoop(S, puzzleType, <<>>, 1)
        after == [looped.state EXCEPT !.objectives = looped.updatedObjectives]
    IN  IF \A i \in DOMAIN after.objectives : after.objectives[i].completed
        THEN [after EXCEPT !.gameState = LEVEL_COMPLETE]
        ELSE after

\* The store's call: checkLogicPuzzle(solution, currentLogicPuzzle.solution,
\* currentLogicPuzzle.validElements). The function takes two parameters, so
\* the stored solution arrives as validElements and the third argument is
\* dropped.
checkLogicPuzzleSolution(S, submitted) ==
    IF ~S.currentLogicPuzzle.active
    THEN [state |-> S,
          ret |-> [Returned("checkLogicPuzzleSolution", 0, 0, "", FALSE,
                            "No active logic puzzle", <<>>) EXCEPT !.grid = submitted]]
    ELSE LET isCorrect == checkLogicPuzzle(submitted, RowArray(S.currentLogicPuzzle.solution))
         IN  [state |-> IF isCorrect THEN MarkPuzzleSolved(S, "logic") ELSE S,
              ret |-> [Returned("checkLogicPuzzleSolution", 0, 0, "", TRUE, "", <<>>)
                          EXCEPT !.isCorrect = isCorrect, !.grid = submitted]]

\* setWordPuzzle
setWordPuzzle(S, puzzle) == [S EXCEPT !.currentWordPuzzle = puzzle]

\* checkWordPuzzleSolution(attempt): checkWordPuzzle returns null for an
\* attempt of another length, and result.every(...) on null is a TypeError,
\* raised before any set().
checkWordPuzzleSolution(S, attempt) ==
    IF ~S.currentWordPuzzle.active
    THEN [state |-> S,
          ret |-> [Returned("checkWordPuzzleSolution", 0, 0, "", FALSE,
                            "No active word puzzle", <<>>) EXCEPT !.attempt = attempt]]
    ELSE LET result == checkWordPuzzle(S.currentWordPuzzle.word, attempt)
         IN  IF result.isNull
             THEN [state |-> S,
                   ret |-> [Threw("checkWordPuzzleSolution", 0, 0, "")
                               EXCEPT !.attempt = attempt]]
             ELSE LET isCorrect == \A i \in DOMAIN result.marks : result.marks[i] = "correct"
                  IN  [state |-> IF isCorrect THEN MarkPuzzleSolved(S, "word") ELSE S,
                       ret |-> [Returned("checkWordPuzzleSolution", 0, 0, "", TRUE, "", <<>>)
                                   EXCEPT !.isCorrect = isCorrect, !.attempt = attempt,
                                          !.result = result.marks]]

\* An item of the shop, as ElementStore builds it; element is "" for null.
Item(id, type, element, price) == [id |-> id, type |-> type, element |-> element, price |-> price]

\* purchaseItem once the price is paid for: the branches on item.type.
Purchase(S, item) ==
    IF item.type = "element"
    THEN [state |-> [S EXCEPT !.playerEssence = S.playerEssence - item.price,
                              !.inventory[item.element] = @ + 5,
                              !.unlockedElements = AddOnce(@, item.element)],
          ret |-> Returned("purchaseItem", 0, 0, item.id, TRUE, "Purchased", <<>>)]
    ELSE IF item.type = "upgrade"
    THEN [state |-> [S EXCEPT !.playerEssence = S.playerEssence - item.price,
                              !.inventory[item.element] = @ + 10],
          ret |-> Returned("purchaseItem", 0, 0, item.id, TRUE, "Upgraded", <<>>)]
    ELSE IF item.type = "special"
    THEN [state |-> IF item.id \in {"special_inventory", "special_cascade"}
                    THEN [S EXCEPT !.playerEssence = S.playerEssence - item.price]
                    ELSE S,
          ret |-> Returned("purchaseItem", 0, 0, item.id, TRUE, "Purchased", <<>>)]
    ELSE [state |-> S,
          ret |-> Returned("purchaseItem", 0, 0, item.id, FALSE, "Unknown item type", <<>>)]

\* A purchase that does not look at the price.
purchaseItem_neverRefuses(S, item) == Purchase(S, item)

\* purchaseItem(item)
purchaseItem(S, item) ==
    IF S.playerEssence < item.price
    THEN [state |-> S,
          ret |-> Returned("purchaseItem", 0, 0, item.id, FALSE, "Not enough essence", <<>>)]
    ELSE Purchase(S, item)

\* Math.floor(Math.log2(n)) for n >= 1.
RECURSIVE FloorLog2(_)
FloorLog2(n) == IF n < 2 THEN 0 ELSE 1 + FloorLog2(n \div 2)

\* basePrices[element] || 200
basePrices ==
    ("fire" :> 100) @@ ("water" :> 100) @@ ("earth" :> 100) @@ ("air" :> 100) @@
    ("metal" :> 250) @@ ("wood" :> 250) @@ ("crystal" :> 500) @@ ("steam" :> 350) @@
    ("cloud" :> 350) @@ ("lava" :> 400) @@ ("sand" :> 300) @@ ("plasma" :> 600)

\* ElementStore's getElementPrice(element, isUpgrade) for an inventory.
getElementPrice(inv, element, isUpgrade) ==
    LET basePrice == IF element \in DOMAIN basePrices THEN basePrices[element] ELSE 200
        currentCount == inv[element]
        level == Max(1, FloorLog2(currentCount + 1))
    IN  IF isUpgrade THEN basePrice * level * 2 ELSE basePrice

(***************************************************************************)
(* puzzles.findPuzzleErrors                                                *)
(***************************************************************************)
\* The positions of one row, column or box in the order the loops visit them.
RowUnit(size, row) == [i \in 1..size |-> <<row, i - 1>>]

ColUnit(size, col) == [i \in 1..size |-> <<i - 1, col>>]

BoxUnit(boxRow, boxCol, boxHeight, boxWidth) ==
    [i \in 1..(boxHeight * boxWidth) |->
        <<boxRow + ((i - 1) \div boxWidth), boxCol + ((i - 1) % boxWidth)>>]

\* One pass over a unit with its Set of elements seen: the positions whose
\* element the Set already has.
RECURSIVE UnitErrors(_, _, _, _, _)
UnitErrors(puzzle, unit, i, seen, errorPositions) ==
    IF i > Len(unit) THEN errorPositions
    ELSE LET cell == puzzle[unit[i][1]][unit[i][2]]
         IN  IF IsEmpty(cell) THEN UnitErrors(puzzle, unit, i + 1, seen, errorPositions)
             ELSE IF cell.element \in seen
             THEN UnitErrors(puzzle, unit, i + 1, seen, Append(errorPositions, unit[i]))
             ELSE UnitErrors(puzzle, unit, i + 1, seen \cup {cell.element}, errorPositions)

\* The units with boxes at sizes 9 and 4 only.
ErrorUnits_boxesAt9And4(size) ==
    LET boxSize == IF size = 9 THEN 3 ELSE 2
        perRow == size \div boxSize
        boxes == IF size \in {9, 4}
                 THEN [k \in 1..(perRow * perRow) |->
                          BoxUnit(((k - 1) \div perRow) * boxSize,
                                  ((k - 1) % perRow) * boxSize, boxSize, boxSize)]
                 ELSE <<>>
    IN  [row \in 1..size |-> RowUnit(size, row - 1)]
        \o [col \in 1..size |-> ColUnit(size, col - 1)]
        \o boxes

\* The units in the order findPuzzleErrors visits them: rows, columns, then
\* the boxes of a 9x9, 4x4 or 6x6 grid.
ErrorUnits(size) ==
    LET boxHeight == IF size = 9 THEN 3 ELSE 2
        boxWidth == IF size = 9 THEN 3 ELSE IF size = 4 THEN 2 ELSE 3
        perRow == size \div boxWidth
        boxes == IF size \in {9, 4, 6}
                 THEN [k \in 1..((size \div boxHeight) * perRow) |->
                          BoxUnit(((k - 1) \div perRow) * boxHeight,
                                  ((k - 1) % perRow) * boxWidth, boxHeight, boxWidth)]
                 ELSE <<>>
    IN  [row \in 1..size |-> RowUnit(size, row - 1)]
        \o [col \in 1..size |-> ColUnit(size, col - 1)]
        \o boxes

RECURSIVE ErrorsLoop(_, _, _, _)
ErrorsLoop(puzzle, units, k, errors) ==
    IF k > Len(units) THEN errors
    ELSE ErrorsLoop(puzzle, units, k + 1,
                    errors \o UnitErrors(puzzle, units[k], 1, {}, <<>>))

findPuzzleErrors(puzzle, size) == ErrorsLoop(puzzle, ErrorUnits(size), 1, <<>>)

(***************************************************************************)
(* interactions.checkSpecialCombinations: the pattern scan. It works on    *)
(* the board it is given; a scan state is that board with the results      *)
(* object.                                                                 *)
(***************************************************************************)
\* An entry of results.combinations: a three-element combination has a
\* result, a pattern has a name; positions is <<>> where the source lists
\* none.
Combination(pattern, result, pts, positions) ==
    [pattern |-> pattern, result |-> result, score |-> pts, positions |-> positions]

ScanStart(b) == [board |-> b, found |-> FALSE, combinations |-> <<>>, score |-> 0]

\* results.found = true; results.combinations.push(c); results.score += c.score
Found(st, c) ==
    [st EXCEPT !.found = TRUE, !.combinations = Append(@, c), !.score = @ + c.score]

\* board[r][c]?.element === e for a row the board has.
Holds(b, r, c, e) == c \in DOMAIN b[r] /\ b[r][c].element = e

threeElementCombos ==
    << [elements |-> {"fire", "metal", "air"}, result |-> "forge", score |-> 300],
       [elements |-> {"water", "earth", "wood"}, result |-> "forest", score |-> 300],
       [elements |-> {"crystal", "fire", "air"}, result |-> "lightning", score |-> 400],
       [elements |-> {"water", "earth", "fire"}, result |-> "geyser", score |-> 350] >>

\* The five three-cell patterns tried at (row, col).
ThreePatterns(row, col) ==
    << << <<row, col>>, <<row, col + 1>>, <<row, col + 2>> >>,
       << <<row, col>>, <<row + 1, col>>, <<row + 2, col>> >>,
       << <<row, col>>, <<row + 1, col>>, <<row + 1, col + 1>> >>,
       << <<row, col>>, <<row + 1, col>>, <<row + 1, col - 1>> >>,
       << <<row, col>>, <<row + 1, col - 1>>, <<row + 1, col>> >> >>

\* One pattern: if its three cells are on the board and filled and their
\* sorted elements are a combination's sorted key, the middle cell becomes
\* the result and the other two are emptied.
TryPattern(st, pattern) ==
    LET b == st.board
        valid == \A i \in 1..3 : /\ InBounds(b, pattern[i][1], pattern[i][2])
                                 /\ ~IsEmpty(b[pattern[i][1]][pattern[i][2]])
        elements == [i \in 1..3 |-> b[pattern[i][1]][pattern[i][2]].element]
        matches == {k \in DOMAIN threeElementCombos :
                       Range(elements) = threeElementCombos[k].elements}
    IN  IF ~valid \/ matches = {} THEN st
        ELSE LET combo == threeElementCombos[CHOOSE k \in matches : TRUE]
                 middle == SetCell(b, pattern[2][1], pattern[2][2], MakeCell(combo.result))
                 first == SetCell(middle, pattern[1][1], pattern[1][2], EmptyCell)
                 third == SetCell(first, pattern[3][1], pattern[3][2], EmptyCell)
             IN  [Found(st, Combination("", combo.result, combo.score, pattern))
                     EXCEPT !.board = third]

\* The loops of checkThreeElementCombinations over row < rows - 1,
\* col < cols - 1 and the five patterns; k counts the patterns tried.
RECURSIVE ThreeLoop(_, _)
ThreeLoop(st, k) ==
    LET nCols == NumCols(st.board) - 1
        total == (NumRows(st.board) - 1) * nCols * 5
    IN  IF k >= total THEN st
        ELSE ThreeLoop(TryPattern(st, ThreePatterns((k \div 5) \div nCols,
                                                    (k \div 5) % nCols)[(k % 5) + 1]),
                       k + 1)

checkThreeElementCombinations(st) == ThreeLoop(st, 0)

Stabilised_strengthOnly(cell) == [cell EXCEPT !.strength = (IF @ = 0 THEN 1 ELSE @) + 1]

\* { ...cell, stable: true, strength: (cell.strength || 1) + 1 }
Stabilised(cell) ==
    [cell EXCEPT !.stable = TRUE, !.strength = (IF @ = 0 THEN 1 ELSE @) + 1]

\* The 2x2 block at (row, col): its four positions in the order listed.
SquareAt(row, col) == << <<row, col>>, <<row, col + 1>>, <<row + 1, col>>, <<row + 1, col + 1>> >>

RECURSIVE EarthSquareLoop(_, _)
EarthSquareLoop(st, k) ==
    LET nCols == NumCols(st.board) - 1
        row == k \div nCols
        col == k % nCols
        b == st.board
    IN  IF k >= (NumRows(b) - 1) * nCols THEN st
        ELSE IF \A i \in 1..4 : Holds(b, SquareAt(row, col)[i][1], SquareAt(row, col)[i][2], "earth")
        THEN EarthSquareLoop(
                 [Found(st, Combination("earth_square", "", 200, SquareAt(row, col)))
                     EXCEPT !.board =
                        [r \in DOMAIN b |-> [c \in DOMAIN b[r] |->
                            IF r \in {row, row + 1} /\ c \in {col, col + 1}
                            THEN Stabilised(b[r][c]) ELSE b[r][c]]]],
                 k + 1)
        ELSE EarthSquareLoop(st, k + 1)

checkEarthSquare(st) == EarthSquareLoop(st, 0)

\* { ...cell, conductive: true, power: (cell.power || 1) + 1 }
Conducting(cell) ==
    [cell EXCEPT !.conductive = TRUE, !.power = (IF @ = 0 THEN 1 ELSE @) + 1]

\* fire-metal-metal or metal-metal-fire along three cells.
IsMetalFirePath(b, cells) ==
    \/ /\ Holds(b, cells[1][1], cells[1][2], "fire")
       /\ Holds(b, cells[2][1], cells[2][2], "metal")
       /\ Holds(b, cells[3][1], cells[3][2], "metal")
    \/ /\ Holds(b, cells[1][1], cells[1][2], "metal")
       /\ Holds(b, cells[2][1], cells[2][2], "metal")
       /\ Holds(b, cells[3][1], cells[3][2], "fire")

\* One candidate path of checkMetalPath: recorded, and its metal cells made
\* conductive.
TryMetalPath(st, cells) ==
    LET b == st.board
    IN  IF IsMetalFirePath(b, cells)
        THEN [Found(st, Combination("metal_fire_path", "", 250, cells))
                 EXCEPT !.board =
                    [r \in DOMAIN b |-> [c \in DOMAIN b[r] |->
                        IF <<r, c>> \in Range(cells) /\ b[r][c].element = "metal"
                        THEN Conducting(b[r][c]) ELSE b[r][c]]]]
        ELSE st

\* The candidate paths in the order of the loops: per row, the horizontal
\* ones at col < cols - 2, then the vertical ones when row < rows - 2.
MetalPathsOfRow(b, row) ==
    [i \in 1..(IF NumCols(b) >= 2 THEN NumCols(b) - 2 ELSE 0) |->
        << <<row, i - 1>>, <<row, i>>, <<row, i + 1>> >>]
    \o (IF row < NumRows(b) - 2
        THEN [i \in 1..NumCols(b) |-> << <<row, i - 1>>, <<row + 1, i - 1>>, <<row + 2, i - 1>> >>]
        ELSE <<>>)

RECURSIVE MetalPathLoop(_, _, _)
MetalPathLoop(st, row, i) ==
    IF row >= NumRows(st.board) THEN st
    ELSE IF i > Len(MetalPathsOfRow(st.board, row)) THEN MetalPathLoop(st, row + 1, 1)
    ELSE MetalPathLoop(TryMetalPath(st, MetalPathsOfRow(st.board, row)[i]), row, i + 1)

checkMetalPath(st) == MetalPathLoop(st, 0, 1)

\* { ...cell, flowing: true, power: (cell.power || 1) + 1 }
Flowing(cell) ==
    [cell EXCEPT !.flowing = TRUE, !.power = (IF @ = 0 THEN 1 ELSE @) + 1]

\* The water cells with at least two orthogonal water neighbours.
WaterWithMultipleNeighbors(b) ==
    {rc \in (DOMAIN b) \X (DOMAIN b[0]) :
        /\ b[rc[1]][rc[2]].element = "water"
        /\ Cardinality({i \in 1..OrthogonalCount :
              /\ InBounds(b, rc[1] + AdjacentOffsets[i][1], rc[2] + AdjacentOffsets[i][2])
              /\ b[rc[1] + AdjacentOffsets[i][1]][rc[2] + AdjacentOffsets[i][2]].element = "water"}) >= 2}

checkWaterCircuit(st) ==
    LET b == st.board
    IN  IF Cardinality(WaterWithMultipleNeighbors(b)) >= 4
        THEN [Found(st, Combination("water_flow_circuit", "", 300, <<>>))
                 EXCEPT !.board =
                    [r \in DOMAIN b |-> [c \in DOMAIN b[r] |->
                        IF b[r][c].element = "water" THEN Flowing(b[r][c]) ELSE b[r][c]]]]
        ELSE st

\* The eight cells around a centre, in the order of circlePoints.
CirclePoints(centerRow, centerCol) ==
    << <<centerRow - 1, centerCol - 1>>, <<centerRow - 1, centerCol>>,
       <<centerRow - 1, centerCol + 1>>, <<centerRow, centerCol - 1>>,
       <<centerRow, centerCol + 1>>, <<centerRow + 1, centerCol - 1>>,
       <<centerRow + 1, centerCol>>, <<centerRow + 1, centerCol + 1>> >>

\* The centres run over 2 <= centerRow < rows - 2, 2 <= centerCol < cols - 2.
RECURSIVE FireCircleLoop(_, _)
FireCircleLoop(st, k) ==
    LET b == st.board
        nCols == NumCols(b) - 4
        centerRow == 2 + (k \div nCols)
        centerCol == 2 + (k % nCols)
        firePositions == SelectSeq(CirclePoints(centerRow, centerCol),
                                   LAMBDA p : InBounds(b, p[1], p[2]) /\ b[p[1]][p[2]].element = "fire")
    IN  IF NumRows(b) <= 4 \/ nCols <= 0 \/ k >= (NumRows(b) - 4) * nCols THEN st
        ELSE IF Len(firePositions) >= 6
        THEN FireCircleLoop(
                 [Found(st, Combination("fire_circle", "", 400, firePositions))
                     EXCEPT !.board = IF IsEmpty(b[centerRow][centerCol])
                                      THEN SetCell(b, centerRow, centerCol, MakeCell("plasma"))
                                      ELSE b],
                 k + 1)
        ELSE FireCircleLoop(st, k + 1)

checkFireCircle(st) == FireCircleLoop(st, 0)

checkElementalPatterns(st) ==
    checkFireCircle(checkWaterCircuit(checkMetalPath(checkEarthSquare(st))))

\* checkSpecialCombinations(board): the results, and the board as the scan
\* leaves it.
checkSpecialCombinations(b) ==
    checkElementalPatterns(checkThreeElementCombinations(ScanStart(b)))

(***************************************************************************)
(* Idle values: what a part's variables hold while another part runs       *)
(***************************************************************************)
LookupIdle ==
    /\ element1 = "fire" /\ element2 = "fire" /\ lookupPc = "idle"
    /\ gotInteraction = NoInteraction /\ gotInteractionRev = NoInteraction
    /\ gotElementInteraction = NoInteraction
    /\ gotElementInteractionRev = NoInteraction

WordIdle ==
    /\ solution = <<>> /\ guess = <<>> /\ wordPc = "idle"
    /\ wordResult = ScoredNull(<<>>, <<>>)

\* What the reaction harness holds before a function has run.
NoReactOut ==
    [newBoard |-> <<>>, score |-> 0, newElements |-> <<>>, reactions |-> <<>>,
     expanded |-> <<>>, calls |-> 0, maxDepth |-> 0, maxExpandDepth |-> 0,
     exhausted |-> FALSE, onVisited |-> <<>>, found |-> FALSE, combinations |-> <<>>,
     modified |-> FALSE, effects |-> <<>>]

ReactIdle ==
    /\ grid = generateBoard(1, 1) /\ originRow = 0 /\ originCol = 0
    /\ reactPc = "idle" /\ reactOut = NoReactOut

\* The store's state as one record, and its assignment to the variables.
StoreNow ==
    [gameState |-> gameState, currentLevel |-> currentLevel, score |-> score,
     playerEssence |-> playerEssence, playerLevel |-> playerLevel,
     experience |-> experience, board |-> board,
     selectedElement |-> selectedElement, inventory |-> inventory,
     unlockedElements |-> unlockedElements, objectives |-> objectives,
     levelsCompleted |-> levelsCompleted, currentWordPuzzle |-> currentWordPuzzle,
     currentLogicPuzzle |-> currentLogicPuzzle]

StoreBecomes(S) ==
    /\ gameState' = S.gameState
    /\ currentLevel' = S.currentLevel
    /\ score' = S.score
    /\ playerEssence' = S.playerEssence
    /\ playerLevel' = S.playerLevel
    /\ experience' = S.experience
    /\ board' = S.board
    /\ selectedElement' = S.selectedElement
    /\ inventory' = S.inventory
    /\ unlockedElements' = S.unlockedElements
    /\ objectives' = S.objectives
    /\ levelsCompleted' = S.levelsCompleted
    /\ currentWordPuzzle' = S.currentWordPuzzle
    /\ currentLogicPuzzle' = S.currentLogicPuzzle

\* The store holds the state S.
StoreIs(S) ==
    /\ gameState = S.gameState
    /\ currentLevel = S.currentLevel
    /\ score = S.score
    /\ playerEssence = S.playerEssence
    /\ playerLevel = S.playerLevel
    /\ experience = S.experience
    /\ board = S.board
    /\ selectedElement = S.selectedElement
    /\ inventory = S.inventory
    /\ unlockedElements = S.unlockedElements
    /\ objectives = S.objectives
    /\ levelsCompleted = S.levelsCompleted
    /\ currentWordPuzzle = S.currentWordPuzzle
    /\ currentLogicPuzzle = S.currentLogicPuzzle

StoreIdle ==
    /\ StoreIs(InitialStore)
    /\ lastCall = NoCall
    /\ placed = 0

\* A call of a puzzle generator: the function, its arguments, and the
\* Math.random() outcomes followed (shuffle, draws).
GenCall(fn, level, size, elements, shuffle, hundredths, draws) ==
    [fn |-> fn, level |-> level, size |-> size, elements |-> elements,
     shuffle |-> shuffle, difficulty |-> hundredths, draws |-> draws]

\* What the grid checks hold before one has run.
NoCheckOut == [errors |-> <<>>, valid |-> FALSE]

CheckIdle == checkPc = "idle" /\ checkGrid = <<>> /\ checkOut = NoCheckOut

GenIdle ==
    /\ genCall = GenCall("", 0, 0, <<>>, "", 0, "") /\ genPc = "idle"
    /\ sudokuGrid = <<>> /\ frames = <<>> /\ genSolution = <<>> /\ genPuzzle = <<>>
    /\ removed = 0 /\ reported = FALSE

PuzzleIdle == GenIdle /\ CheckIdle

(***************************************************************************)
(* SpecLookup: both lookups applied to a pair of catalog ids, both ways    *)
(***************************************************************************)
LookupPair ==
    /\ lookupPc = "input"
    /\ lookupPc' = "done"
    /\ gotInteraction' = getInteraction(element1, element2)
    /\ gotInteractionRev' = getInteraction(element2, element1)
    /\ gotElementInteraction' = getElementInteraction(element1, element2)
    /\ gotElementInteractionRev' = getElementInteraction(element2, element1)
    /\ UNCHANGED <<element1, element2, wordVars, reactVars, storeVars, puzzleVars>>

(***************************************************************************)
(* SpecWord: each scoring function applied to a (solution, guess) pair     *)
(***************************************************************************)
Words == UNION {[1..n -> Alphabet] : n \in 0..MaxWordLen}

ScoreWithCheckWordGuess ==
    /\ wordPc = "input"
    /\ wordPc' = "checkWordGuess"
    /\ wordResult' = checkWordGuess(solution, guess)
    /\ UNCHANGED <<solution, guess, lookupVars, reactVars, storeVars, puzzleVars>>

\* The store and the WordPuzzle component pass word.split('') and
\* attempt.split('').
ScoreWithCheckWordPuzzle ==
    /\ wordPc = "input"
    /\ wordPc' = "checkWordPuzzle"
    /\ wordResult' = checkWordPuzzle(solution, guess)
    /\ UNCHANGED <<solution, guess, lookupVars, reactVars, storeVars, puzzleVars>>

InitLookup ==
    /\ element1 \in Catalog /\ element2 \in Catalog /\ lookupPc = "input"
    /\ gotInteraction = NoInteraction /\ gotInteractionRev = NoInteraction
    /\ gotElementInteraction = NoInteraction
    /\ gotElementInteractionRev = NoInteraction
    /\ WordIdle /\ ReactIdle /\ StoreIdle /\ PuzzleIdle

NextLookup == LookupPair

SpecLookup == InitLookup /\ [][NextLookup]_vars

InitWord ==
    /\ solution \in Words /\ guess \in Words /\ wordPc = "input"
    /\ wordResult = ScoredNull(<<>>, <<>>)
    /\ LookupIdle /\ ReactIdle /\ StoreIdle /\ PuzzleIdle

NextWord == ScoreWithCheckWordGuess \/ ScoreWithCheckWordPuzzle

SpecWord == InitWord /\ [][NextWord]_vars

(***************************************************************************)
(* SpecReact: checkInteractions and processChainReaction applied to a grid *)
(* and an origin. The grids are every grid of at most MaxCells cells over  *)
(* DenseElements, and every 3x3 grid with at most MaxFilled cells occupied *)
(* by SparseElements.                                                      *)
(***************************************************************************)
MaxCells == 4

MaxFilled == 2

DenseElements == {"fire", "water", "wood", "air"}

SparseElements == {"fire", "water", "earth", "air", "wood"}

DenseShapes == {rc \in (1..MaxCells) \X (1..MaxCells) : rc[1] * rc[2] <= MaxCells}

ScenarioShape == <<3, 3>>

Positions(shape) == (0..(shape[1] - 1)) \X (0..(shape[2] - 1))

DenseGrids(shape) ==
    [0..(shape[1] - 1) ->
        [0..(shape[2] - 1) -> {EmptyCell} \cup {MakeCell(e) : e \in DenseElements}]]

SparseGrid(filled, f) ==
    [r \in 0..(ScenarioShape[1] - 1) |->
        [c \in 0..(ScenarioShape[2] - 1) |->
            IF <<r, c>> \in filled THEN MakeCell(f[<<r, c>>]) ELSE EmptyCell]]

\* The outcomes of the Math.random() tests of one effect.
RandomDraws == [1..OrthogonalCount -> BOOLEAN]

\* Whether the effect of the element placed at (row, col) of b reaches a
\* Math.random() test at the i-th neighbour of its list, on the board as the
\* neighbour pass left it: fire at a wood neighbour, water at an empty left
\* or right cell.
DrawsAt(b, row, col, i) ==
    LET element == b[row][col].element
        after == InteractionLoop([newBoard |-> b, score |-> 0, newElements |-> <<>>,
                                  interactions |-> <<>>], row, col, element, 1).newBoard
    IN  \/ /\ element = "fire"
           /\ InBounds(b, row + AdjacentOffsets[i][1], col + AdjacentOffsets[i][2])
           /\ after[row + AdjacentOffsets[i][1]][col + AdjacentOffsets[i][2]].element = "wood"
        \/ /\ element = "water"
           /\ i <= Len(HorizontalOffsets)
           /\ InBounds(b, row, col + HorizontalOffsets[i][2])
           /\ IsEmpty(after[row][col + HorizontalOffsets[i][2]])

\* The draws that differ only where a test is made.
DrawsFor(b, row, col) ==
    {rnd \in RandomDraws : \A i \in 1..OrthogonalCount : rnd[i] => DrawsAt(b, row, col, i)}

InitReact ==
    /\ \/ \E shape \in DenseShapes :
            /\ grid \in DenseGrids(shape)
            /\ originRow \in 0..(shape[1] - 1)
            /\ originCol \in 0..(shape[2] - 1)
       \/ \E filled \in {T \in SUBSET Positions(ScenarioShape) : Cardinality(T) <= MaxFilled} :
            \E f \in [filled -> SparseElements] :
                /\ grid = SparseGrid(filled, f)
                /\ originRow \in 0..(ScenarioShape[1] - 1)
                /\ originCol \in 0..(ScenarioShape[2] - 1)
    /\ reactPc = "input"
    /\ reactOut = NoReactOut
    /\ LookupIdle /\ WordIdle /\ StoreIdle /\ PuzzleIdle

RunCheckInteractions ==
    /\ reactPc = "input"
    /\ \E rnd \in DrawsFor(grid, originRow, originCol) :
          LET out == checkInteractions(grid, originRow, originCol, rnd)
          IN  reactOut' = [NoReactOut EXCEPT !.newBoard = out.newBoard,
                                              !.score = out.score,
                                              !.newElements = out.newElements,
                                              !.reactions = out.interactions]
    /\ reactPc' = "checkInteractions"
    /\ UNCHANGED <<grid, originRow, originCol, lookupVars, wordVars, storeVars, puzzleVars>>

RunProcessChainReaction ==
    /\ reactPc = "input"
    /\ LET out == processChainReaction(grid, originRow, originCol)
       IN  reactOut' = [NoReactOut EXCEPT
                           !.newBoard = out.board, !.score = out.score,
                           !.newElements = out.newElements, !.reactions = out.reactions,
                           !.expanded = out.expanded, !.calls = out.calls,
                           !.maxDepth = out.maxDepth,
                           !.maxExpandDepth = out.maxExpandDepth,
                           !.exhausted = out.exhausted,
                           !.onVisited = out.onVisited]
    /\ reactPc' = "processChainReaction"
    /\ UNCHANGED <<grid, originRow, originCol, lookupVars, wordVars, storeVars, puzzleVars>>

NextReact == RunCheckInteractions \/ RunProcessChainReaction

SpecReact == InitReact /\ [][NextReact]_vars

(***************************************************************************)
(* SpecStore: the store from its constructed state, driven by its actions. *)
(***************************************************************************)
\* The successful placements the model follows after a construction or a
\* reset.
MaxPlaced == 2

\* The element types placeElement is called with: three the player starts
\* with, and wood, of which the starting inventory has none.
PlaceElements == {"fire", "water", "earth", "wood"}

\* The arguments selectElement is called with.
SelectElements == {"fire"}

\* The rows and columns placeElement is called with: the first row and the
\* first two columns, the row and column before the first and those after the
\* last.
PlaceRows == {-1, 0, NumRows(board)}
PlaceCols == {-1, 0, 1, IF board = <<>> THEN 0 ELSE NumCols(board)}

\* The draws a placeElement call can consume: none when the call is refused.
PlaceDraws(row, col, elementType) ==
    IF row \in DOMAIN board /\ col \in DOMAIN board[row]
    THEN DrawsFor(SetCell(board, row, col, MakeCell(elementType)), row, col)
    ELSE {[i \in 1..OrthogonalCount |-> FALSE]}

InitStore ==
    /\ StoreIdle
    /\ LookupIdle /\ WordIdle /\ ReactIdle /\ PuzzleIdle

InitGame ==
    /\ StoreBecomes(initGame(StoreNow))
    /\ lastCall' = [NoCall EXCEPT !.op = "initGame"]
    /\ UNCHANGED <<placed, lookupVars, wordVars, reactVars, puzzleVars>>

StartGame ==
    /\ StoreBecomes(startGame(StoreNow))
    /\ lastCall' = [NoCall EXCEPT !.op = "startGame"]
    /\ UNCHANGED <<placed, lookupVars, wordVars, reactVars, puzzleVars>>

SelectElement ==
    /\ \E element \in SelectElements : StoreBecomes(selectElement(StoreNow, element))
    /\ lastCall' = [NoCall EXCEPT !.op = "selectElement"]
    /\ UNCHANGED <<placed, lookupVars, wordVars, reactVars, puzzleVars>>

PlaceElement ==
    /\ placed < MaxPlaced
    /\ \E row \in PlaceRows, col \in PlaceCols, elementType \in PlaceElements :
        \E rnd \in PlaceDraws(row, col, elementType) :
          LET out == placeElement(StoreNow, row, col, elementType, rnd)
          IN  /\ StoreBecomes(out.state)
              /\ lastCall' = out.ret
              /\ placed' = IF out.ret.success THEN placed + 1 ELSE placed
    /\ UNCHANGED <<lookupVars, wordVars, reactVars, puzzleVars>>

ResetGame ==
    /\ StoreBecomes(resetGame(StoreNow))
    /\ lastCall' = [NoCall EXCEPT !.op = "resetGame"]
    /\ placed' = 0
    /\ UNCHANGED <<lookupVars, wordVars, reactVars, puzzleVars>>

NextStore == InitGame \/ StartGame \/ SelectElement \/ PlaceElement \/ ResetGame

SpecStore == InitStore /\ [][NextStore]_vars

(***************************************************************************)
(* SpecPuzzle: the logic-puzzle generators, from a call to its return. The *)
(* backtracking solver advances one placement or one backtrack at a time,  *)
(* the carving loop one Math.random() draw at a time.                      *)
(***************************************************************************)
\* The catalog as one list, and its first n entries.
AllElements == INITIAL_ELEMENTS \o UNLOCKABLE_ELEMENTS

First(n) == SubSeq(AllElements, 1, n)

\* generateSudokuSolution(size, elements): every shuffle at size 4, with as
\* many elements as the size and with one fewer; the two constant shuffles
\* at sizes 6 and 9.
SudokuCalls ==
    {GenCall("generateSudokuSolution", 0, 4, First(n), "any", 0, "") : n \in {3, 4}}
    \cup {GenCall("generateSudokuSolution", 0, size, First(size), shuffle, 0, "") :
            size \in {6, 9}, shuffle \in {"ascending", "descending"}}

\* The levels and element lists puzzles.generateLogicPuzzle is called with.
SudokuLevels == {1, 3, 4, 8}

SudokuElementLists(level) ==
    IF SudokuSizeOf(level) = 4
    THEN {First(4), First(6), First(3), <<"fire", "fire", "water", "earth">>}
    ELSE {First(SudokuSizeOf(level))}

\* The levels gameLogic.generateLogicPuzzle is called with.
LogicLevels == 1..5

\* createPuzzleFromSolution(solution, difficulty) and createPuzzle called on
\* their own: the grid sizes and the difficulties, in hundredths.
CarveSizes == {2, 3}

CarveDifficulties == {0, 25, 43, 50, 70}

\* The order in which the draws of the carving loop reach the cells when the
\* grid is too large to follow every draw.
DrawOrders == {"forward", "backward"}

InitPuzzle ==
    /\ genCall = GenCall("", 0, 0, <<>>, "", 0, "") /\ genPc = "input"
    /\ sudokuGrid = <<>> /\ frames = <<>> /\ genSolution = <<>> /\ genPuzzle = <<>>
    /\ removed = 0 /\ reported = FALSE
    /\ LookupIdle /\ WordIdle /\ ReactIdle /\ StoreIdle /\ CheckIdle

otherVars == <<lookupVars, wordVars, reactVars, storeVars, checkVars>>

\* generateSudokuSolution: the empty grid and the first call of solveSudoku.
CallGenerateSudokuSolution ==
    /\ genPc = "input"
    /\ \E call \in SudokuCalls :
          /\ genCall' = call
          /\ sudokuGrid' = EmptySudokuGrid(call.size)
    /\ frames' = <<{}>>
    /\ genPc' = "solveSudoku"
    /\ UNCHANGED <<genSolution, genPuzzle, removed, reported, otherVars>>

\* puzzles.generateLogicPuzzle up to the first call of solveSudoku.
CallGenerateLogicPuzzle ==
    /\ genPc = "input"
    /\ \E level \in SudokuLevels :
        \E elements \in SudokuElementLists(level) :
          LET size == SudokuSizeOf(level)
          IN  /\ genCall' = GenCall("generateLogicPuzzle", level, size,
                                    Slice(elements, size),
                                    IF size = 4 THEN "any" ELSE "ascending",
                                    SudokuDifficultyOf(level), "forward")
              /\ sudokuGrid' = EmptySudokuGrid(size)
    /\ frames' = <<{}>>
    /\ genPc' = "solveSudoku"
    /\ UNCHANGED <<genSolution, genPuzzle, removed, reported, otherVars>>

\* The cell the innermost open call of solveSudoku is at.
CurrentCell == Len(frames) - 1

\* solveSudoku places the next element that fits and calls itself for the
\* next cell.
SolvePlace ==
    /\ genPc = "solveSudoku"
    /\ CurrentCell < genCall.size * genCall.size
    /\ \E i \in NextCandidates(genCall.shuffle,
                               OpenCandidates(sudokuGrid, CurrentCell, genCall.size,
                                              genCall.elements, frames[Len(frames)])) :
          /\ sudokuGrid' = [sudokuGrid EXCEPT
                              ![CurrentCell \div genCall.size][CurrentCell % genCall.size] =
                                  genCall.elements[i]]
          /\ frames' = Append([frames EXCEPT ![Len(frames)] = @ \cup {i}], {})
    /\ UNCHANGED <<genCall, genPc, genSolution, genPuzzle, removed, reported, otherVars>>

\* No element is left for the cell: solveSudoku returns false, and its caller
\* clears the cell it had filled.
SolveBacktrack ==
    /\ genPc = "solveSudoku"
    /\ Len(frames) > 1
    /\ CurrentCell < genCall.size * genCall.size
    /\ OpenCandidates(sudokuGrid, CurrentCell, genCall.size, genCall.elements,
                      frames[Len(frames)]) = {}
    /\ sudokuGrid' = [sudokuGrid EXCEPT
                        ![(CurrentCell - 1) \div genCall.size][(CurrentCell - 1) % genCall.size] = ""]
    /\ frames' = SubSeq(frames, 1, Len(frames) - 1)
    /\ UNCHANGED <<genCall, genPc, genSolution, genPuzzle, removed, reported, otherVars>>

\* What follows generateSudokuSolution: its caller's return, or the copy that
\* createPuzzleFromSolution starts from.
AfterSolution(sol) ==
    /\ genSolution' = sol
    /\ IF genCall.fn = "generateSudokuSolution"
       THEN genPc' = "returned" /\ UNCHANGED genPuzzle
       ELSE genPc' = "carving" /\ genPuzzle' = JsonCopy(sol)
    /\ removed' = 0

\* row === size: every open call returns true, and generateSudokuSolution
\* converts the grid.
SolveSucceed ==
    /\ genPc = "solveSudoku"
    /\ CurrentCell = genCall.size * genCall.size
    /\ AfterSolution(AsCells(sudokuGrid))
    /\ frames' = <<>>
    /\ UNCHANGED <<genCall, sudokuGrid, reported, otherVars>>

\* The outermost call returns false: console.error, and the grid of nulls is
\* returned as it is.
SolveFail ==
    /\ genPc = "solveSudoku"
    /\ Len(frames) = 1
    /\ OpenCandidates(sudokuGrid, CurrentCell, genCall.size, genCall.elements,
                      frames[Len(frames)]) = {}
    /\ reported' = TRUE
    /\ AfterSolution(AsCells(sudokuGrid))
    /\ frames' = <<>>
    /\ UNCHANGED <<genCall, sudokuGrid, otherVars>>

\* gameLogic.generateLogicPuzzle up to the copy createPuzzle starts from.
CallGameLogicGenerateLogicPuzzle ==
    /\ genPc = "input"
    /\ \E level \in LogicLevels :
          LET size == LogicSizeOf(level)
              sol == generateSolution(size, Slice(LogicElementsOf(level), size))
          IN  /\ genCall' = GenCall("gameLogic.generateLogicPuzzle", level, size,
                                    Slice(LogicElementsOf(level), size), "",
                                    difficulty(level), "forward")
              /\ genSolution' = sol
              /\ genPuzzle' = JsonCopy(sol)
    /\ genPc' = "carving"
    /\ UNCHANGED <<sudokuGrid, frames, removed, reported, otherVars>>

\* createPuzzleFromSolution / createPuzzle called on a filled grid.
CallCreatePuzzleFromSolution ==
    /\ genPc = "input"
    /\ \E fn \in {"createPuzzleFromSolution", "createPuzzle"}, size \in CarveSizes,
          hundredths \in CarveDifficulties :
          /\ genCall' = GenCall(fn, 0, size, First(size), "", hundredths, "any")
          /\ genSolution' = generateSolution(size, First(size))
          /\ genPuzzle' = JsonCopy(generateSolution(size, First(size)))
    /\ genPc' = "carving"
    /\ UNCHANGED <<sudokuGrid, frames, removed, reported, otherVars>>

\* The cells one pair of Math.random() draws can name.
DrawCells ==
    LET size == genCall.size
        at(k) == <<k \div size, k % size>>
    IN  IF genCall.draws = "any" THEN (0..(size - 1)) \X (0..(size - 1))
        ELSE IF genCall.draws = "forward"
             THEN {at(removed)} \cup (IF removed > 0 THEN {at(removed - 1)} ELSE {})
             ELSE {at(size * size - 1 - removed)}

\* One turn of the while loop of createPuzzleFromSolution / createPuzzle.
CarveDraw ==
    /\ genPc = "carving"
    /\ removed < CellsToRemove(genCall.size, genCall.difficulty)
    /\ \E rc \in DrawCells :
          /\ genPuzzle' = CarveCell(genPuzzle, removed, rc[1], rc[2]).puzzle
          /\ removed' = CarveCell(genPuzzle, removed, rc[1], rc[2]).removed
    /\ UNCHANGED <<genCall, genPc, sudokuGrid, frames, genSolution, reported, otherVars>>

\* The loop ends and the puzzle is returned.
CarveReturn ==
    /\ genPc = "carving"
    /\ removed >= CellsToRemove(genCall.size, genCall.difficulty)
    /\ genPc' = "returned"
    /\ UNCHANGED <<genCall, sudokuGrid, frames, genSolution, genPuzzle, removed,
                   reported, otherVars>>

NextPuzzle ==
    \/ CallGenerateSudokuSolution \/ CallGenerateLogicPuzzle
    \/ SolvePlace \/ SolveBacktrack \/ SolveSucceed \/ SolveFail
    \/ CallGameLogicGenerateLogicPuzzle \/ CallCreatePuzzleFromSolution
    \/ CarveDraw \/ CarveReturn

\* Math.random() does not name emptied cells for ever.
SpecPuzzle == InitPuzzle /\ [][NextPuzzle]_vars /\ WF_vars(NextPuzzle)

(***************************************************************************)
(* SpecPuzzleStore: the store driven through its levels and its logic      *)
(* puzzle operations.                                                      *)
(***************************************************************************)
\* The 4x4 solution the backtracking generator returns when every shuffle
\* leaves the elements in the order given.
SolvedGrid4 ==
    AsCells([r \in 0..3 |-> [c \in 0..3 |->
        << <<"fire", "water", "earth", "air">>, <<"earth", "air", "fire", "water">>,
           <<"water", "fire", "air", "earth">>, <<"air", "earth", "water", "fire">> >>[r + 1][c + 1]]])

\* A solution with its first n cells, row by row, emptied.
CarvedForward(sol, n) ==
    [r \in DOMAIN sol |-> [c \in DOMAIN sol[r] |->
        IF r * Cardinality(DOMAIN sol) + c < n THEN EmptyCell ELSE sol[r][c]]]

\* The puzzle states setLogicPuzzle is given: one from the backtracking
\* generator at level 1, and those of gameLogic.generateLogicPuzzle at
\* levels 1 to 4.
LogicPuzzleStates ==
    {PuzzleState(4, CarvedForward(SolvedGrid4, CellsToRemove(4, SudokuDifficultyOf(1))),
                 SolvedGrid4, First(4))}
    \cup {LET size == LogicSizeOf(level)
              valid == Slice(LogicElementsOf(level), size)
              sol == generateSolution(size, valid)
          IN  PuzzleState(size, CarvedForward(sol, CellsToRemove(size, difficulty(level))),
                          sol, valid) : level \in 1..4}

\* The grids checkLogicPuzzleSolution is given: the active puzzle's stored
\* solution, its unfinished puzzle, and the 4x4 solution above.
SubmittedGrids ==
    {SolvedGrid4} \cup (IF currentLogicPuzzle.active
                        THEN {currentLogicPuzzle.solution, currentLogicPuzzle.puzzle}
                        ELSE {})

NextLevel ==
    /\ StoreBecomes(nextLevel(StoreNow))
    /\ lastCall' = [NoCall EXCEPT !.op = "nextLevel"]
    /\ UNCHANGED <<placed, lookupVars, wordVars, reactVars, puzzleVars>>

SetLogicPuzzle ==
    /\ \E puzzle \in LogicPuzzleStates : StoreBecomes(setLogicPuzzle(StoreNow, puzzle))
    /\ lastCall' = [NoCall EXCEPT !.op = "setLogicPuzzle"]
    /\ UNCHANGED <<placed, lookupVars, wordVars, reactVars, puzzleVars>>

CheckLogicPuzzleSolution ==
    /\ \E submitted \in SubmittedGrids :
          LET out == checkLogicPuzzleSolution(StoreNow, submitted)
          IN  /\ StoreBecomes(out.state)
              /\ lastCall' = out.ret
    /\ UNCHANGED <<placed, lookupVars, wordVars, reactVars, puzzleVars>>

NextPuzzleStore == NextLevel \/ SetLogicPuzzle \/ CheckLogicPuzzleSolution

SpecPuzzleStore == InitStore /\ [][NextPuzzleStore]_vars

(***************************************************************************)
(* SpecLevelOne: level 1 from the state after resetGame and startGame,     *)
(* played with selectElement, placeElement and purchaseItem.               *)
(***************************************************************************)
\* The successful placements followed on level 1.
MaxLevelPlaced == 5

\* The calls placeElement(row, col, elementType) followed on the 6x6 board
\* of level 1: fire and water side by side, which react to steam, and fire,
\* earth and air apart from them and from each other; earth where the water
\* was placed.
LevelCalls ==
    {<<0, 0, "fire">>, <<0, 1, "water">>, <<0, 1, "earth">>, <<0, 3, "fire">>,
     <<0, 5, "earth">>, <<3, 3, "air">>}

\* The items purchaseItem is called with, priced as ElementStore prices them
\* for the inventory at hand, and one item of a type the shop does not have.
ShopItems ==
    {Item("fire", "element", "fire", getElementPrice(inventory, "fire", FALSE)),
     Item("upgrade_water", "upgrade", "water", getElementPrice(inventory, "water", TRUE)),
     Item("special_inventory", "special", "", 500),
     Item("special_catalyst", "special", "crystal", 1000),
     Item("bundle", "bundle", "", 0)}

InitLevelOne ==
    /\ StoreIs(startGame(resetGame(InitialStore)))
    /\ lastCall = [NoCall EXCEPT !.op = "startGame"]
    /\ placed = 0
    /\ LookupIdle /\ WordIdle /\ ReactIdle /\ PuzzleIdle

PlaceOnLevel ==
    /\ placed < MaxLevelPlaced
    /\ \E call \in LevelCalls :
        \E rnd \in PlaceDraws(call[1], call[2], call[3]) :
          LET out == placeElement(StoreNow, call[1], call[2], call[3], rnd)
          IN  /\ StoreBecomes(out.state)
              /\ lastCall' = out.ret
              /\ placed' = IF out.ret.success THEN placed + 1 ELSE placed
    /\ UNCHANGED <<lookupVars, wordVars, reactVars, puzzleVars>>

PurchaseItem ==
    /\ \E item \in ShopItems :
          LET out == purchaseItem(StoreNow, item)
          IN  /\ StoreBecomes(out.state)
              /\ lastCall' = out.ret
    /\ UNCHANGED <<placed, lookupVars, wordVars, reactVars, puzzleVars>>

NextLevelOne == SelectElement \/ PlaceOnLevel \/ PurchaseItem

SpecLevelOne == InitLevelOne /\ [][NextLevelOne]_vars

(***************************************************************************)
(* SpecGame: the store across levels, with the shop and the word puzzle.   *)
(***************************************************************************)
\* The score below which checkWordPuzzleSolution is still called.
MaxScore == 1000

\* The calls placeElement(row, col, elementType) followed: fire and air side
\* by side, which react to plasma, water in place of the air, and wood, of
\* which the starting inventory has none.
GameCalls == {<<0, 0, "fire">>, <<0, 1, "air">>, <<0, 1, "water">>, <<0, 0, "wood">>}

\* The word of the puzzle, and the attempts: the word, its letters swapped,
\* and two attempts of another length.
PuzzleWord == <<"A", "B">>

Attempts == {<<"A", "B">>, <<"B", "A">>, <<"A">>, <<"A", "B", "A">>}

PlaceInGame ==
    /\ placed < MaxPlaced
    /\ \E call \in GameCalls :
        \E rnd \in PlaceDraws(call[1], call[2], call[3]) :
          LET out == placeElement(StoreNow, call[1], call[2], call[3], rnd)
          IN  /\ StoreBecomes(out.state)
              /\ lastCall' = out.ret
              /\ placed' = IF out.ret.success THEN placed + 1 ELSE placed
    /\ UNCHANGED <<lookupVars, wordVars, reactVars, puzzleVars>>

\* nextLevel, called before the first placement or once the level is
\* complete.
AdvanceLevel ==
    /\ placed = 0 \/ gameState = LEVEL_COMPLETE
    /\ StoreBecomes(nextLevel(StoreNow))
    /\ lastCall' = [NoCall EXCEPT !.op = "nextLevel"]
    /\ UNCHANGED <<placed, lookupVars, wordVars, reactVars, puzzleVars>>

SetWordPuzzle ==
    /\ StoreBecomes(setWordPuzzle(StoreNow, WordPuzzleState(PuzzleWord)))
    /\ lastCall' = [NoCall EXCEPT !.op = "setWordPuzzle"]
    /\ UNCHANGED <<placed, lookupVars, wordVars, reactVars, puzzleVars>>

CheckWordPuzzleSolution ==
    /\ score < MaxScore
    /\ \E attempt \in Attempts :
          LET out == checkWordPuzzleSolution(StoreNow, attempt)
          IN  /\ StoreBecomes(out.state)
              /\ lastCall' = out.ret
    /\ UNCHANGED <<placed, lookupVars, wordVars, reactVars, puzzleVars>>

NextGame ==
    \/ ResetGame \/ StartGame \/ AdvanceLevel \/ PlaceInGame \/ PurchaseItem
    \/ SetWordPuzzle \/ CheckWordPuzzleSolution

SpecGame == InitStore /\ [][NextGame]_vars

(***************************************************************************)
(* SpecCheck: findPuzzleErrors and gameLogic.checkLogicPuzzle applied to a *)
(* grid.                                                                   *)
(***************************************************************************)
\* A 4x4 grid whose only cells are two in one row, holding the same element.
PairGrid(row, c1, c2, e) ==
    [r \in 0..3 |-> [c \in 0..3 |->
        IF r = row /\ c \in {c1, c2} THEN MakeCell(e) ELSE EmptyCell]]

PairGrids ==
    {PairGrid(row, c1, c2, e) : row \in 0..3, c1 \in 0..3, c2 \in 0..3, e \in Range(First(4))}

\* The 4x4 solution with one cell overwritten by another element.
OverwrittenGrids ==
    {SetCell(SolvedGrid4, r, c, MakeCell(e)) : r \in 0..3, c \in 0..3, e \in Range(First(4))}

\* A filled grid with each element once in every row, column and box.
BoxedSolution(size, elements) ==
    LET boxHeight == IF size = 9 THEN 3 ELSE 2
        boxWidth == IF size = 4 THEN 2 ELSE 3
    IN  [r \in 0..(size - 1) |-> [c \in 0..(size - 1) |->
            MakeCell(elements[(((r % boxHeight) * boxWidth + (r \div boxHeight) + c) % size) + 1])]]

\* Filled grids of the three sizes: the cyclic solutions of
\* gameLogic.generateSolution and the boxed ones.
FilledGrids ==
    {generateSolution(size, First(size)) : size \in {4, 6, 9}}
    \cup {BoxedSolution(size, First(size)) : size \in {4, 6, 9}}

\* The boxed solutions of sizes 6 and 9, whole or with the diagonal emptied,
\* and one cell of them overwritten by an element or emptied.
DiagonalEmptied(g) ==
    [r \in DOMAIN g |-> [c \in DOMAIN g[r] |-> IF r = c THEN EmptyCell ELSE g[r][c]]]

AlteredGrids ==
    UNION {{SetCell(base, r, c, cell) :
                r \in 0..(size - 1), c \in 0..(size - 1),
                cell \in {MakeCell(e) : e \in Range(First(size))} \cup {EmptyCell},
                base \in {BoxedSolution(size, First(size)),
                          DiagonalEmptied(BoxedSolution(size, First(size)))}} :
           size \in {6, 9}}

CheckGrids == PairGrids \cup OverwrittenGrids \cup FilledGrids \cup AlteredGrids

InitCheck ==
    /\ checkPc = "input" /\ checkGrid \in CheckGrids /\ checkOut = NoCheckOut
    /\ LookupIdle /\ WordIdle /\ ReactIdle /\ StoreIdle /\ GenIdle

RunFindPuzzleErrors ==
    /\ checkPc = "input"
    /\ checkPc' = "findPuzzleErrors"
    /\ checkOut' = [NoCheckOut EXCEPT !.errors = findPuzzleErrors(checkGrid, NumRows(checkGrid))]
    /\ UNCHANGED <<checkGrid, lookupVars, wordVars, reactVars, storeVars, genVars>>

\* checkLogicPuzzle(board, validElements) with the elements of the grid's
\* size as validElements.
RunCheckLogicPuzzle ==
    /\ checkPc = "input"
    /\ checkPc' = "checkLogicPuzzle"
    /\ checkOut' = [NoCheckOut EXCEPT
                       !.valid = checkLogicPuzzle(checkGrid, StringArray(First(NumRows(checkGrid))))]
    /\ UNCHANGED <<checkGrid, lookupVars, wordVars, reactVars, storeVars, genVars>>

NextCheck == RunFindPuzzleErrors \/ RunCheckLogicPuzzle

SpecCheck == InitCheck /\ [][NextCheck]_vars

(***************************************************************************)
(* SpecEffect: the water effect of gameLogic and of interactions applied   *)
(* at a water cell.                                                        *)
(***************************************************************************)
\* The outcomes of the two Math.random() tests of the water effect.
WaterDraws == {rnd \in RandomDraws : \A i \in DOMAIN rnd : i > Len(HorizontalOffsets) => ~rnd[i]}

InitEffect ==
    /\ \/ \E shape \in DenseShapes :
            /\ grid \in DenseGrids(shape)
            /\ originRow \in 0..(shape[1] - 1)
            /\ originCol \in 0..(shape[2] - 1)
       \/ \E filled \in {T \in SUBSET Positions(ScenarioShape) : Cardinality(T) <= MaxFilled} :
            \E f \in [filled -> SparseElements] :
                /\ grid = SparseGrid(filled, f)
                /\ originRow \in 0..(ScenarioShape[1] - 1)
                /\ originCol \in 0..(ScenarioShape[2] - 1)
    /\ grid[originRow][originCol].element = "water"
    /\ reactPc = "input"
    /\ reactOut = NoReactOut
    /\ LookupIdle /\ WordIdle /\ StoreIdle /\ PuzzleIdle

RunApplyWaterFlow ==
    /\ reactPc = "input"
    /\ \E rnd \in WaterDraws :
          reactOut' = [NoReactOut EXCEPT
                          !.newBoard = applyWaterFlow(grid, originRow, originCol, rnd)]
    /\ reactPc' = "applyWaterFlow"
    /\ UNCHANGED <<grid, originRow, originCol, lookupVars, wordVars, storeVars, puzzleVars>>

RunApplyWaterFlowEffect ==
    /\ reactPc = "input"
    /\ \E rnd \in WaterDraws :
          LET out == applyWaterFlowEffect(grid, originRow, originCol, rnd)
          IN  reactOut' = [NoReactOut EXCEPT !.newBoard = out.board,
                                              !.modified = out.modified,
                                              !.effects = out.effects]
    /\ reactPc' = "applyWaterFlowEffect"
    /\ UNCHANGED <<grid, originRow, originCol, lookupVars, wordVars, storeVars, puzzleVars>>

NextEffect == RunApplyWaterFlow \/ RunApplyWaterFlowEffect

SpecEffect == InitEffect /\ [][NextEffect]_vars

(***************************************************************************)
(* SpecScan: checkSpecialCombinations applied to a board.                  *)
(***************************************************************************)
ScanShapes == {<<2, 2>>, <<2, 3>>, <<3, 3>>, <<5, 5>>}

\* A board whose only cells are one 2x2 block of the given cell.
BlockGrid(shape, row, col, cell) ==
    [r \in 0..(shape[1] - 1) |-> [c \in 0..(shape[2] - 1) |->
        IF r \in {row, row + 1} /\ c \in {col, col + 1} THEN cell ELSE EmptyCell]]

\* Blocks of earth and of water, fresh or as an earlier scan annotated them.
BlockCells ==
    {MakeCell("earth"), Stabilised(MakeCell("earth")), MakeCell("water"),
     Flowing(MakeCell("water"))}

BlockGrids ==
    UNION {{BlockGrid(shape, row, col, cell) :
                row \in 0..(shape[1] - 2), col \in 0..(shape[2] - 2), cell \in BlockCells} :
           shape \in ScanShapes}

\* 3x3 boards with three cells filled from fire, metal, air and earth.
TripleElements == {"fire", "metal", "air", "earth"}

TripleGrids ==
    UNION {{SparseGrid(filled, f) : f \in [filled -> TripleElements]} :
           filled \in {T \in SUBSET Positions(ScenarioShape) : Cardinality(T) = 3}}

\* 5x5 boards with fire on the ring around the centre, up to two cells of
\* the ring left out.
RingGrids ==
    {[r \in 0..4 |-> [c \in 0..4 |->
        IF <<r, c>> \in Range(CirclePoints(2, 2)) \ out THEN MakeCell("fire") ELSE EmptyCell]] :
     out \in {T \in SUBSET Range(CirclePoints(2, 2)) : Cardinality(T) <= 2}}

ScanGrids == BlockGrids \cup TripleGrids \cup RingGrids

InitScan ==
    /\ grid \in ScanGrids /\ originRow = 0 /\ originCol = 0
    /\ reactPc = "input" /\ reactOut = NoReactOut
    /\ LookupIdle /\ WordIdle /\ StoreIdle /\ PuzzleIdle

RunCheckSpecialCombinations ==
    /\ reactPc = "input"
    /\ LET out == checkSpecialCombinations(grid)
       IN  reactOut' = [NoReactOut EXCEPT !.newBoard = out.board, !.score = out.score,
                                           !.found = out.found,
                                           !.combinations = out.combinations]
    /\ reactPc' = "checkSpecialCombinations"
    /\ UNCHANGED <<grid, originRow, originCol, lookupVars, wordVars, storeVars, puzzleVars>>

NextScan == RunCheckSpecialCombinations

SpecScan == InitScan /\ [][NextScan]_vars

(***************************************************************************)
(* Properties                                                              *)
(***************************************************************************)
Cells(b) == NumRows(b) * NumCols(b)

Occupied(b) == {rc \in (DOMAIN b) \X (DOMAIN b[0]) : ~IsEmpty(b[rc[1]][rc[2]])}

Orthogonal(p, q) ==
    \/ p[1] = q[1] /\ (p[2] = q[2] + 1 \/ q[2] = p[2] + 1)
    \/ p[2] = q[2] /\ (p[1] = q[1] + 1 \/ q[1] = p[1] + 1)

\* The 3x3 scenario: fire at the origin, one water cell orthogonally beside
\* it, nothing else on the grid.
FireBesideWater ==
    /\ NumRows(grid) = ScenarioShape[1]
    /\ NumCols(grid) = ScenarioShape[2]
    /\ grid[originRow][originCol] = MakeCell("fire")
    /\ \E w \in Occupied(grid) :
          /\ Orthogonal(w, <<originRow, originCol>>)
          /\ grid[w[1]][w[2]] = MakeCell("water")
          /\ Occupied(grid) = {w, <<originRow, originCol>>}

WaterCell == CHOOSE w \in Occupied(grid) : w # <<originRow, originCol>>

\* C1: with fire placed orthogonally beside the only water cell of a 3x3
\* grid, checkInteractions and processChainReaction both leave steam in the
\* former water cell, a score of exactly 100, and newElements = [steam].
C1_FireWaterMakesSteam ==
    (reactPc \in {"checkInteractions", "processChainReaction"} /\ FireBesideWater)
        => /\ reactOut.newBoard[WaterCell[1]][WaterCell[2]].element = "steam"
           /\ reactOut.score = 100
           /\ reactOut.newElements = <<"steam">>

C1_Witness ==
    /\ reactPc = "checkInteractions"
    /\ FireBesideWater
    /\ reactOut.newBoard[WaterCell[1]][WaterCell[2]].element = "steam"
    /\ Len(reactOut.reactions) = 1

\* C2: a successful placeElement has run checkSpecialCombinations exactly
\* once before it returns, a rejected one has not run it.
C2_ScanOncePerPlacement ==
    lastCall.op = "placeElement"
        => IF lastCall.success THEN lastCall.scans = 1 ELSE lastCall.scans = 0

\* C3: a placeElement call on a cell that holds an element, for an element
\* type the inventory has, returns a failure and changes none of board,
\* inventory, score, playerEssence, selectedElement, objectives.
C3_OccupiedCellRejected ==
    [][ ( /\ lastCall'.op = "placeElement"
          /\ lastCall'.row \in DOMAIN board
          /\ lastCall'.col \in DOMAIN board[lastCall'.row]
          /\ ~IsEmpty(board[lastCall'.row][lastCall'.col])
          /\ inventory[lastCall'.elementType] >= 1 )
        => ( /\ ~lastCall'.success
             /\ ~lastCall'.threw
             /\ UNCHANGED <<board, inventory, score, playerEssence,
                            selectedElement, objectives>> ) ]_vars

C3_Witness ==
    /\ lastCall.op = "placeElement"
    /\ lastCall.message = "Cell already occupied"
    /\ lastCall.row \in DOMAIN board
    /\ lastCall.col \in DOMAIN board[lastCall.row]
    /\ ~IsEmpty(board[lastCall.row][lastCall.col])
    /\ inventory[lastCall.elementType] >= 1

\* C4: a placeElement call with a row or a column outside the board, for an
\* element type the inventory has, returns a failure result and does not
\* throw.
C4_OutOfBoundsRejected ==
    ( /\ lastCall.op = "placeElement"
      /\ board # <<>>
      /\ \/ lastCall.row \notin DOMAIN board
         \/ lastCall.col \notin DOMAIN board[0]
      /\ inventory[lastCall.elementType] >= 1 )
        => (~lastCall.threw /\ ~lastCall.success)

\* C5: for every ordered pair of catalog ids, getInteraction gives the same
\* answer for (A, B) and (B, A), so does getElementInteraction, and the two
\* functions agree.
C5_LookupSymmetric ==
    lookupPc = "done"
        => /\ gotInteraction = gotInteractionRev
           /\ gotElementInteraction = gotElementInteractionRev
           /\ gotInteraction = gotElementInteraction

C5_Witness ==
    /\ lookupPc = "done"
    /\ element1 = "water" /\ element2 = "fire"
    /\ gotInteraction = Rule("steam", 100, "")
    /\ gotElementInteractionRev = Rule("steam", 100, "")

NoDuplicates(seq) == \A i, j \in DOMAIN seq : seq[i] = seq[j] => i = j

Marked(marks, i) == marks[i] \in {"correct", "present"}

\* How many positions of the guess hold letter L and are marked correct or
\* present, and how often L occurs in a word.
MarkedCount(marks, word, L) ==
    Cardinality({i \in DOMAIN word : word[i] = L /\ Marked(marks, i)})

Occurrences(word, L) == Cardinality({i \in DOMAIN word : word[i] = L})

\* C7: for a solution and a guess of equal length and every letter L, the
\* guess positions holding L that are marked correct or present are at most
\* the occurrences of L in the solution (letters taken up to case for
\* checkWordGuess, which upper-cases both words, and as given for
\* checkWordPuzzle); and the call leaves both arguments as they were.
C7_MarkedWithinOccurrences ==
    /\ (wordPc = "checkWordGuess" /\ Len(solution) = Len(guess))
          => \A L \in Alphabet :
                MarkedCount(wordResult.marks, toUpperCase(guess), UpperChar(L))
                    <= Occurrences(toUpperCase(solution), UpperChar(L))
    /\ (wordPc = "checkWordPuzzle" /\ Len(solution) = Len(guess))
          => /\ ~wordResult.isNull
             /\ \A L \in Alphabet :
                   MarkedCount(wordResult.marks, guess, L) <= Occurrences(solution, L)
    /\ wordPc \in {"checkWordGuess", "checkWordPuzzle"}
          => (wordResult.solutionAfter = solution /\ wordResult.guessAfter = guess)

\* A guess with a letter three times against a solution that has it once:
\* one position is marked, two are absent.
C7_Witness ==
    /\ wordPc = "checkWordPuzzle"
    /\ solution = <<"A", "B", "B">>
    /\ guess = <<"A", "A", "A">>
    /\ wordResult.marks = <<"correct", "absent", "absent">>

AllCorrect(marks, word) ==
    /\ Len(marks) = Len(word)
    /\ \A i \in DOMAIN word : marks[i] = "correct"

\* C9: checkWordGuess returns a result that marks every position of the
\* solution, all of them correct, exactly when the guess equals the solution
\* up to letter case.
C9_AllCorrectIffEqual ==
    wordPc = "checkWordGuess"
        => (AllCorrect(wordResult.marks, solution)
                <=> toUpperCase(guess) = toUpperCase(solution))

C9_Witness ==
    /\ wordPc = "checkWordGuess"
    /\ solution = <<"A", "B", "A">>
    /\ guess = <<"a", "B", "A">>
    /\ wordResult.marks = <<"correct", "correct", "correct">>

\* The guess holds the same letters as the solution, each as often.
IsPermutation(a, b) ==
    /\ Len(a) = Len(b)
    /\ \A L \in Alphabet : Occurrences(a, L) = Occurrences(b, L)

\* C10: when the guess is a permutation of the solution, both functions
\* return a result without an absent entry.
C10_PermutationNeverAbsent ==
    (wordPc \in {"checkWordGuess", "checkWordPuzzle"} /\ IsPermutation(guess, solution))
        => /\ ~wordResult.isNull
           /\ Len(wordResult.marks) = Len(guess)
           /\ \A i \in DOMAIN wordResult.marks : wordResult.marks[i] # "absent"

\* A permutation with a repeated letter that is not the solution itself.
C10_Witness ==
    /\ wordPc = "checkWordPuzzle"
    /\ solution = <<"A", "A", "B">>
    /\ guess = <<"B", "A", "A">>
    /\ wordResult.marks = <<"present", "correct", "present">>

(***************************************************************************)
(* Properties of the logic-puzzle generators                               *)
(***************************************************************************)
\* The box shape of a size: 2x2 at 4, 2 rows x 3 columns at 6, 3x3 at 9.
BoxHeightOf(size) == IF size = 9 THEN 3 ELSE 2

BoxWidthOf(size) == IF size = 4 THEN 2 ELSE 3

FullyFilled(g) == \A r \in DOMAIN g : \A c \in DOMAIN g[r] : ~IsEmpty(g[r][c])

\* How often element e occurs among the cells at the given positions.
CountIn(g, positions, e) == Cardinality({rc \in positions : g[rc[1]][rc[2]].element = e})

RowCells(size, r) == {r} \X (0..(size - 1))

ColCells(size, c) == (0..(size - 1)) \X {c}

BoxCells(size, br, bc) ==
    ((br * BoxHeightOf(size))..(br * BoxHeightOf(size) + BoxHeightOf(size) - 1))
    \X ((bc * BoxWidthOf(size))..(bc * BoxWidthOf(size) + BoxWidthOf(size) - 1))

RowsAndColumnsOnce(g, size, elements) ==
    \A e \in Range(elements) : \A k \in 0..(size - 1) :
        /\ CountIn(g, RowCells(size, k), e) = 1
        /\ CountIn(g, ColCells(size, k), e) = 1

BoxesOnce(g, size, elements) ==
    \A e \in Range(elements) :
        \A br \in 0..((size \div BoxHeightOf(size)) - 1), bc \in 0..((size \div BoxWidthOf(size)) - 1) :
            CountIn(g, BoxCells(size, br, bc), e) = 1

Distinct(seq) == \A i, j \in DOMAIN seq : seq[i] = seq[j] => i = j

\* The solver has returned to generateSudokuSolution, which has returned.
SolverReturned ==
    /\ genCall.fn \in {"generateSudokuSolution", "generateLogicPuzzle"}
    /\ genPc \in {"carving", "returned"}

\* C11: for size 4, 6 or 9 and a list of exactly size distinct elements,
\* whatever order the shuffles present the candidates in, the grid that
\* generateSudokuSolution returns is fully filled and holds each element
\* exactly once in every row, every column and every box, and no failure is
\* reported.
C11_SolutionIsSudoku ==
    (SolverReturned /\ Len(genCall.elements) = genCall.size /\ Distinct(genCall.elements))
        => /\ ~reported
           /\ DOMAIN genSolution = 0..(genCall.size - 1)
           /\ FullyFilled(genSolution)
           /\ RowsAndColumnsOnce(genSolution, genCall.size, genCall.elements)
           /\ BoxesOnce(genSolution, genCall.size, genCall.elements)

\* A 9x9 solution has been returned whose first row is not in the order of
\* the element list: the descending shuffle.
C11_Witness ==
    /\ genCall.fn = "generateSudokuSolution" /\ genPc = "returned"
    /\ genCall.size = 9
    /\ genSolution[0][0].element = genCall.elements[9]
    /\ BoxesOnce(genSolution, 9, genCall.elements)

NullCells(g) == {rc \in (DOMAIN g) \X (DOMAIN g) : IsEmpty(g[rc[1]][rc[2]])}

\* The puzzle with every null refilled from the solution.
Refilled(puzzle, sol) ==
    [r \in DOMAIN puzzle |->
        [c \in DOMAIN puzzle[r] |-> IF IsEmpty(puzzle[r][c]) THEN sol[r][c] ELSE puzzle[r][c]]]

\* createPuzzleFromSolution or createPuzzle is at work on a filled solution,
\* called on its own or by a generator.
CarvingFilled ==
    /\ genPc \in {"carving", "returned"}
    /\ genCall.fn # "generateSudokuSolution"
    /\ FullyFilled(genSolution)

\* C12: carving a fully filled solution at a difficulty in [0, 0.7] never
\* empties more than floor(size * size * difficulty) cells and returns with
\* exactly that many; every cell it leaves is the solution's cell, so
\* refilling the nulls from the solution gives the solution back; and the
\* solution handed in is as it was.
C12_CarveRoundTrip ==
    CarvingFilled =>
        /\ Cardinality(NullCells(genPuzzle)) <= CellsToRemove(genCall.size, genCall.difficulty)
        /\ genPc = "returned" =>
              Cardinality(NullCells(genPuzzle)) = CellsToRemove(genCall.size, genCall.difficulty)
        /\ \A r, c \in DOMAIN genPuzzle :
              ~IsEmpty(genPuzzle[r][c]) => genPuzzle[r][c] = genSolution[r][c]
        /\ Refilled(genPuzzle, genSolution) = genSolution
        /\ genCall.fn \in {"createPuzzleFromSolution", "createPuzzle"} =>
              genSolution = generateSolution(genCall.size, genCall.elements)

\* A 3x3 solution carved at difficulty 0.7 has been returned with six nulls,
\* the first cell among them.
C12_Witness ==
    /\ genCall.fn = "createPuzzleFromSolution" /\ genPc = "returned"
    /\ genCall.size = 3 /\ genCall.difficulty = 70
    /\ Cardinality(NullCells(genPuzzle)) = 6
    /\ IsEmpty(genPuzzle[0][0])

(***************************************************************************)
(* Properties of the store's logic-puzzle check                            *)
(***************************************************************************)
\* A grid is a solved puzzle: fully filled with valid elements, each once in
\* every row, column and box.
SolvesPuzzle(g, puzzle) ==
    /\ DOMAIN g = 0..(puzzle.size - 1)
    /\ FullyFilled(g)
    /\ \A r, c \in DOMAIN g : g[r][c].element \in Range(puzzle.validElements)
    /\ RowsAndColumnsOnce(g, puzzle.size, puzzle.validElements)
    /\ BoxesOnce(g, puzzle.size, puzzle.validElements)

LogicObjectivesCompleted ==
    \A i \in DOMAIN objectives :
        (objectives[i].type = "solve_puzzle" /\ objectives[i].puzzleType = "logic")
            => objectives[i].completed

\* C13: with a logic puzzle active, checkLogicPuzzleSolution answers
\* isCorrect = true for every grid that solves the puzzle (the stored
\* solution among them) and has then marked every logic solve_puzzle
\* objective completed.
C13_SolvedGridAccepted ==
    (/\ lastCall.op = "checkLogicPuzzleSolution"
     /\ currentLogicPuzzle.active
     /\ SolvesPuzzle(lastCall.grid, currentLogicPuzzle))
        => lastCall.isCorrect /\ LogicObjectivesCompleted

(***************************************************************************)
(* Properties of the grid checks                                           *)
(***************************************************************************)
\* Exactly the two cells (row, c1) and (row, c2) of the row hold element e.
TwoInRow(g, row, c1, c2, e) ==
    /\ c1 # c2
    /\ {c \in DOMAIN g[row] : g[row][c].element = e} = {c1, c2}

\* C14: on a 4x4 grid in which exactly two cells of one row hold the same
\* element, findPuzzleErrors returns the positions of both cells.
C14_BothDuplicatesReported ==
    (checkPc = "findPuzzleErrors" /\ NumRows(checkGrid) = 4) =>
        \A row, c1, c2 \in 0..3 : \A e \in Range(First(4)) :
            TwoInRow(checkGrid, row, c1, c2, e) =>
                {<<row, c1>>, <<row, c2>>} \subseteq Range(checkOut.errors)

\* Some box of the grid (2x2 at size 4, 2x3 at size 6, 3x3 at size 9) holds an
\* element twice.
SomeBoxRepeats(g, size) ==
    \E br \in 0..((size \div BoxHeightOf(size)) - 1), bc \in 0..((size \div BoxWidthOf(size)) - 1) :
        ~NoRepeat(g, BoxCells(size, br, bc))

\* C20: checkLogicPuzzle(board, validElements) returns false for every fully
\* filled grid of size 4, 6 or 9 in which some box holds an element twice,
\* also when no row and no column does.
C20_BoxRepeatRejected ==
    (/\ checkPc = "checkLogicPuzzle"
     /\ NumRows(checkGrid) \in {4, 6, 9}
     /\ FullyFilled(checkGrid)
     /\ SomeBoxRepeats(checkGrid, NumRows(checkGrid)))
        => ~checkOut.valid

(***************************************************************************)
(* Properties of the pattern scan                                          *)
(***************************************************************************)
\* The only filled cells of g are the 2x2 block at (row, col), all earth.
EarthBlockAt(g, row, col) ==
    /\ Occupied(g) = Range(SquareAt(row, col))
    /\ \A p \in Range(SquareAt(row, col)) : g[p[1]][p[2]].element = "earth"

\* C15: on a board whose only filled cells are one 2x2 block of earth,
\* wherever it lies, checkSpecialCombinations reports exactly one match,
\* earth_square, and a score of 200; the four cells are then stable with
\* their strength one higher (a cell without a strength counts as 1), and
\* every other cell is as before.
C15_EarthSquareScored ==
    reactPc = "checkSpecialCombinations" =>
        \A row \in 0..(NumRows(grid) - 2), col \in 0..(NumCols(grid) - 2) :
            EarthBlockAt(grid, row, col) =>
                /\ reactOut.found
                /\ Len(reactOut.combinations) = 1
                /\ reactOut.combinations[1].pattern = "earth_square"
                /\ reactOut.combinations[1].positions = SquareAt(row, col)
                /\ reactOut.score = 200
                /\ \A r \in DOMAIN grid : \A c \in DOMAIN grid[r] :
                      reactOut.newBoard[r][c] =
                          IF <<r, c>> \in Range(SquareAt(row, col))
                          THEN [grid[r][c] EXCEPT
                                   !.stable = TRUE,
                                   !.strength = (IF grid[r][c].strength = 0 THEN 1
                                                 ELSE grid[r][c].strength) + 1]
                          ELSE grid[r][c]

\* The block in the last two rows and columns of a 3x3 board has been
\* scanned.
C15_Witness ==
    /\ reactPc = "checkSpecialCombinations"
    /\ NumRows(grid) = 3 /\ NumCols(grid) = 3
    /\ EarthBlockAt(grid, 1, 1)
    /\ grid[2][2].strength = 0
    /\ reactOut.newBoard[2][2].stable /\ reactOut.newBoard[2][2].strength = 2
    /\ reactOut.score = 200

(***************************************************************************)
(* Termination of the generator                                            *)
(***************************************************************************)
\* C16: every call of puzzles.generateLogicPuzzle(level, elements) returns,
\* also when the solver could not complete the grid and reported it.
C16_GenerationReturns ==
    (genCall.fn = "generateLogicPuzzle") ~> (genPc = "returned")

(***************************************************************************)
(* The elements on the store's board                                       *)
(***************************************************************************)
\* C17: after any sequence of store calls from the empty board, every
\* filled cell of the board holds an element id of the catalog.
C17_CellsInCatalog ==
    \A r \in DOMAIN board : \A c \in DOMAIN board[r] :
        ~IsEmpty(board[r][c]) => board[r][c].element \in Catalog

(***************************************************************************)
(* The puzzle states the generators return                                 *)
(***************************************************************************)
\* A generateLogicPuzzle call has returned; for the puzzles module, one that
\* was given at least size elements.
GeneratorReturned ==
    /\ genPc = "returned"
    /\ \/ genCall.fn = "gameLogic.generateLogicPuzzle"
       \/ genCall.fn = "generateLogicPuzzle" /\ Len(genCall.elements) = genCall.size

\* C18: every puzzle state a generator returns has validElements of length
\* size and a fully filled solution with each valid element exactly once in
\* every row and every column.
C18_ReturnedStateWellFormed ==
    GeneratorReturned =>
        /\ Len(genCall.elements) = genCall.size
        /\ FullyFilled(genSolution)
        /\ RowsAndColumnsOnce(genSolution, genCall.size, genCall.elements)

(***************************************************************************)
(* The cells a chain reaction writes                                       *)
(***************************************************************************)
\* C19: processChainReaction applies no reaction to a cell that is already
\* in the visited set, and no recorded reaction has the origin cell as its
\* position.
C19_VisitedNeverMutated ==
    reactPc = "processChainReaction"
        => /\ reactOut.onVisited = <<>>
           /\ \A i \in DOMAIN reactOut.reactions :
                 reactOut.reactions[i].position # <<originRow, originCol>>

(***************************************************************************)
(* What findPuzzleErrors reports                                           *)
(***************************************************************************)
\* p comes before q in the order the loops reach them (within a row, a
\* column or a box that is row by row, then left to right).
Earlier(p, q) == p[1] < q[1] \/ (p[1] = q[1] /\ p[2] < q[2])

SameRow(p, q) == p[1] = q[1]

SameCol(p, q) == p[2] = q[2]

SameBox(size, p, q) ==
    /\ p[1] \div BoxHeightOf(size) = q[1] \div BoxHeightOf(size)
    /\ p[2] \div BoxWidthOf(size) = q[2] \div BoxWidthOf(size)

\* An earlier cell related to q holds q's element.
RepeatsEarlier(g, q, Related(_, _)) ==
    /\ ~IsEmpty(g[q[1]][q[2]])
    /\ \E p \in (DOMAIN g) \X (DOMAIN g) :
          /\ Related(p, q) /\ Earlier(p, q)
          /\ g[p[1]][p[2]].element = g[q[1]][q[2]].element

\* In how many of its row, its column and its box q repeats an earlier cell.
RepeatCount(g, size, q) ==
    (IF RepeatsEarlier(g, q, SameRow) THEN 1 ELSE 0)
    + (IF RepeatsEarlier(g, q, SameCol) THEN 1 ELSE 0)
    + (IF RepeatsEarlier(g, q, LAMBDA a, b : SameBox(size, a, b)) THEN 1 ELSE 0)

\* Some row, column or box of g holds an element twice.
SomeUnitRepeats(g, size) ==
    \E p, q \in (DOMAIN g) \X (DOMAIN g) :
        /\ p # q /\ ~IsEmpty(g[p[1]][p[2]])
        /\ g[p[1]][p[2]].element = g[q[1]][q[2]].element
        /\ SameRow(p, q) \/ SameCol(p, q) \/ SameBox(size, p, q)

\* C21: at sizes 4, 6 and 9 findPuzzleErrors reports a position once for
\* each of its row, column and box in which an earlier cell holds the same
\* element, and not otherwise; the list is empty exactly when no row,
\* column or box repeats an element; no empty cell is reported.
C21_ErrorsAreLaterRepeats ==
    (checkPc = "findPuzzleErrors" /\ NumRows(checkGrid) \in {4, 6, 9}) =>
        LET size == NumRows(checkGrid)
        IN  /\ \A q \in (DOMAIN checkGrid) \X (DOMAIN checkGrid) :
                  Cardinality({i \in DOMAIN checkOut.errors : checkOut.errors[i] = q})
                      = RepeatCount(checkGrid, size, q)
            /\ (checkOut.errors = <<>>) <=> ~SomeUnitRepeats(checkGrid, size)
            /\ \A i \in DOMAIN checkOut.errors :
                  ~IsEmpty(checkGrid[checkOut.errors[i][1]][checkOut.errors[i][2]])

\* A 6x6 grid with empty cells in which one position is reported three
\* times: for its row, its column and its box.
C21_Witness ==
    /\ checkPc = "findPuzzleErrors"
    /\ NumRows(checkGrid) = 6
    /\ ~FullyFilled(checkGrid)
    /\ \E q \in (DOMAIN checkGrid) \X (DOMAIN checkGrid) :
          /\ RepeatCount(checkGrid, 6, q) = 3
          /\ Cardinality({i \in DOMAIN checkOut.errors : checkOut.errors[i] = q}) = 3

(***************************************************************************)
(* Three-cell templates of the pattern scan                                *)
(***************************************************************************)
\* The template lies inside g, its three cells are the only filled cells of
\* g, and their elements are those of the combination.
TemplateHolds(g, template, combo) ==
    /\ \A i \in 1..3 : InBounds(g, template[i][1], template[i][2])
    /\ Occupied(g) = Range(template)
    /\ {g[template[i][1]][template[i][2]].element : i \in 1..3} = combo.elements

\* The middle cell holds the result and every other cell is empty.
TemplateResolved(b, template, combo) ==
    \A r \in DOMAIN b : \A c \in DOMAIN b[r] :
        b[r][c] = IF <<r, c>> = template[2] THEN MakeCell(combo.result) ELSE EmptyCell

\* C22: wherever a three-cell template lies inside the grid, the last row
\* and the last column included, with its cells the only filled ones and
\* holding a table combination, checkSpecialCombinations reports the match,
\* puts the result in the template's middle cell, empties the other two and
\* adds the combination's score.
C22_TemplateMatched ==
    reactPc = "checkSpecialCombinations" =>
        \A row \in DOMAIN grid : \A col \in DOMAIN grid[row] :
            \A t \in 1..5 : \A k \in DOMAIN threeElementCombos :
                TemplateHolds(grid, ThreePatterns(row, col)[t], threeElementCombos[k]) =>
                    /\ reactOut.found
                    /\ \E i \in DOMAIN reactOut.combinations :
                          reactOut.combinations[i].result = threeElementCombos[k].result
                    /\ reactOut.score = threeElementCombos[k].score
                    /\ TemplateResolved(reactOut.newBoard, ThreePatterns(row, col)[t],
                                        threeElementCombos[k])

(***************************************************************************)
(* The water effect                                                        *)
(***************************************************************************)
WaterCells(b) == {p \in (DOMAIN b) \X (DOMAIN b[0]) : b[p[1]][p[2]].element = "water"}

\* The cell below the origin is on the grid and empty.
BelowFree == originRow + 1 < NumRows(grid) /\ IsEmpty(grid[originRow + 1][originCol])

\* C23: the water effect at a water cell (r, c), whatever the draws: if the
\* cell below is on the grid and empty it then holds water and (r, c) is
\* empty, otherwise (r, c) is unchanged; any other cell that changes is an
\* empty cell at (r, c-1) or (r, c+1) and becomes flowing water; no filled
\* cell other than (r, c) changes; the board has at least as many water cells
\* as before.
C23_WaterEffectFrame ==
    reactPc \in {"applyWaterFlow", "applyWaterFlowEffect"} =>
        LET b == reactOut.newBoard
            origin == <<originRow, originCol>>
            below == <<originRow + 1, originCol>>
        IN  /\ IF BelowFree
               THEN b[below[1]][below[2]].element = "water" /\ IsEmpty(b[originRow][originCol])
               ELSE b[originRow][originCol] = grid[originRow][originCol]
            /\ \A p \in (DOMAIN grid) \X (DOMAIN grid[0]) :
                  (p # origin /\ ~(BelowFree /\ p = below) /\ b[p[1]][p[2]] # grid[p[1]][p[2]]) =>
                      /\ p \in {<<originRow, originCol - 1>>, <<originRow, originCol + 1>>}
                      /\ IsEmpty(grid[p[1]][p[2]])
                      /\ b[p[1]][p[2]] = [MakeCell("water") EXCEPT !.flowing = TRUE]
            /\ \A p \in Occupied(grid) \ {origin} : b[p[1]][p[2]] = grid[p[1]][p[2]]
            /\ Cardinality(WaterCells(b)) >= Cardinality(WaterCells(grid))

\* Water has moved down and spread to both sides.
C23_Witness ==
    /\ reactPc = "applyWaterFlowEffect"
    /\ NumCols(grid) = 3 /\ originCol = 1
    /\ BelowFree
    /\ IsEmpty(reactOut.newBoard[originRow][originCol])
    /\ reactOut.newBoard[originRow + 1][originCol].element = "water"
    /\ reactOut.newBoard[originRow][0].flowing /\ reactOut.newBoard[originRow][2].flowing

(***************************************************************************)
(* The single pass against the chain                                       *)
(***************************************************************************)
\* What the eight-neighbour pass of checkInteractions makes of the grid,
\* before the special effects.
PairPass ==
    InteractionLoop([newBoard |-> grid, score |-> 0, newElements |-> <<>>,
                     interactions |-> <<>>],
                    originRow, originCol, grid[originRow][originCol].element, 1)

\* C24: for every grid and every filled origin, each cell the pair pass of
\* checkInteractions changes ends with the same element after
\* processChainReaction from the same origin, and the chain scores at least
\* as much as the pass.
C24_PassWithinChain ==
    (reactPc = "processChainReaction" /\ ~IsEmpty(grid[originRow][originCol])) =>
        /\ \A r \in DOMAIN grid : \A c \in DOMAIN grid[r] :
              PairPass.newBoard[r][c] # grid[r][c] =>
                  reactOut.newBoard[r][c].element = PairPass.newBoard[r][c].element
        /\ reactOut.score >= PairPass.score

(***************************************************************************)
(* Completing level 1                                                      *)
(***************************************************************************)
OnBoard(element) == CountElement(board, element) > 0

AllObjectivesCompleted == \A i \in DOMAIN objectives : objectives[i].completed

\* What the two objectives of level 1 ask for is on the board: steam, and
\* each of the four basic elements.
LevelOneBoardDone ==
    /\ OnBoard("steam")
    /\ \A e \in Range(INITIAL_ELEMENTS) : OnBoard(e)

\* C25: level 1 can be completed without nextLevel: once a placement has
\* left steam and all four basic elements on the board, every objective of
\* level 1 is completed and gameState is LEVEL_COMPLETE.
C25_LevelOneCompletes ==
    (currentLevel = 1 /\ lastCall.op = "placeElement" /\ lastCall.success /\ LevelOneBoardDone)
        => AllObjectivesCompleted /\ gameState = LEVEL_COMPLETE

\* No play of level 1 completes place_all_elements, so none completes the
\* level.
LevelOneStaysOpen ==
    /\ gameState # LEVEL_COMPLETE
    /\ \A i \in DOMAIN objectives :
          objectives[i].type = "place_elements" => ~objectives[i].completed

(***************************************************************************)
(* Completing a level by the word puzzle                                   *)
(***************************************************************************)
\* C26: whenever gameState is LEVEL_COMPLETE, currentLevel is in
\* levelsCompleted and levelsCompleted holds no level twice, whichever
\* action completed the last objective.  Stated for a level that has
\* objectives, which is every level initGame has set up.
C26_CompletedLevelRecorded ==
    (gameState = LEVEL_COMPLETE /\ objectives # <<>>)
        => /\ currentLevel \in Range(levelsCompleted)
           /\ NoDuplicates(levelsCompleted)

WordObjectivesCompleted ==
    \A i \in DOMAIN objectives :
        (objectives[i].type = "solve_puzzle" /\ objectives[i].puzzleType = "word")
            => objectives[i].completed

\* C27: an objective's points are paid at most once and its completed flag
\* never reverts: a checkWordPuzzleSolution call made when every word
\* objective is already completed changes none of score, playerEssence,
\* experience and playerLevel, and no placeElement or
\* checkWordPuzzleSolution call turns a completed objective back to open.
C27_ObjectivePaidOnce ==
    [][ /\ (lastCall'.op = "checkWordPuzzleSolution" /\ WordObjectivesCompleted)
            => /\ score' = score
               /\ playerEssence' = playerEssence
               /\ experience' = experience
               /\ playerLevel' = playerLevel
        /\ lastCall'.op \in {"placeElement", "checkWordPuzzleSolution"}
            => /\ DOMAIN objectives' = DOMAIN objectives
               /\ \A i \in DOMAIN objectives :
                     objectives[i].completed => objectives'[i].completed ]_vars

\* C28: with an active word puzzle, checkWordPuzzleSolution returns
\* {success: true, result, isCorrect} for every attempt and never throws;
\* isCorrect is true exactly when the attempt equals the word, and is false
\* when the attempt's length differs from the word's.
C28_AttemptAnswered ==
    (lastCall.op = "checkWordPuzzleSolution" /\ currentWordPuzzle.active)
        => /\ ~lastCall.threw
           /\ lastCall.success
           /\ lastCall.isCorrect <=> (lastCall.attempt = currentWordPuzzle.word)
           /\ Len(lastCall.attempt) # Len(currentWordPuzzle.word) => ~lastCall.isCorrect

(***************************************************************************)
(* Inventory and essence                                                   *)
(***************************************************************************)
\* C29: every inventory count and playerEssence are non-negative integers
\* before and after every step; a placeElement that succeeds for element
\* type t found inventory[t] >= 1, a purchaseItem that succeeds found
\* playerEssence >= the item's price, and a rejected placeElement or
\* purchaseItem changes neither inventory nor playerEssence.
C29_StockNeverNegative ==
    [][ /\ \A e \in ElementNames : inventory[e] \in Nat /\ inventory'[e] \in Nat
        /\ playerEssence \in Nat /\ playerEssence' \in Nat
        /\ (lastCall'.op = "placeElement" /\ lastCall'.success)
            => inventory[lastCall'.elementType] >= 1
        /\ (lastCall'.op = "purchaseItem" /\ lastCall'.success)
            => \E item \in ShopItems :
                  item.id = lastCall'.elementType /\ playerEssence >= item.price
        /\ (lastCall'.op \in {"placeElement", "purchaseItem"} /\ ~lastCall'.success)
            => inventory' = inventory /\ playerEssence' = playerEssence ]_vars

\* Five fire were bought and paid for.
C29_Witness ==
    /\ lastCall.op = "purchaseItem" /\ lastCall.success
    /\ lastCall.elementType = "fire"
    /\ inventory["fire"] >= StartCount + 4

(***************************************************************************)
(* Experience and player level                                             *)
(***************************************************************************)
\* The amounts the shipped levels pass to addExperience: objective points
\* and level rewards.
ShippedPoints ==
    UNION {{PointsOf(objective) : objective \in Range(levelObjectives[l])} :
              l \in DOMAIN levelObjectives} \cup
    {levelRewards[l].points : l \in DOMAIN levelRewards}

ExperienceInRange(exp, level) == 0 <= exp /\ exp < level * ExpPerLevel

\* C30: 0 <= experience < playerLevel * 1000 before and after every step,
\* no step but resetGame lowers playerLevel, and an addExperience call in
\* the state reached raises playerLevel by at most one and carries over
\* only the surplus experience.
C30_ExperienceBelowLevelCost ==
    [][ /\ ExperienceInRange(experience, playerLevel)
        /\ ExperienceInRange(experience', playerLevel')
        /\ lastCall'.op # "resetGame" => playerLevel' >= playerLevel
        /\ \A amount \in ShippedPoints :
              LET after == addExperience(StoreNow, amount)
                  raised == after.playerLevel # playerLevel
              IN  /\ after.playerLevel \in {playerLevel, playerLevel + 1}
                  /\ after.experience =
                        experience + amount - (IF raised THEN playerLevel * ExpPerLevel ELSE 0)
                  /\ raised <=> experience + amount >= playerLevel * ExpPerLevel ]_vars

\* The placement that completed level 6 paid the objective and the reward,
\* and the player went up a level with experience left over.
C30_Witness ==
    /\ lastCall.op = "placeElement" /\ gameState = LEVEL_COMPLETE
    /\ currentLevel \in Range(levelsCompleted)
    /\ playerLevel > 1 /\ experience > 0

====
